---- MODULE Spec2Model ----
(***************************************************************************)
(* Model of the comment-radar analysis engines (GroqEngine, GeminiEngine)  *)
(* and of the stance logic they call, with the accuracy evaluation of      *)
(* the stance labels.                                                      *)
(*                                                                         *)
(* Numbers.  A JavaScript number is modelled as an integer in fixed point: *)
(* the value 1.0 is One, so 0.85 is (85 * One) \div 100.  Every score the  *)
(* model draws is a multiple of 0.01 and every likeCount is 10^k - 1, so   *)
(* that 1 + log10(likeCount + 1) is an integer and the division by 7 of    *)
(* calculateWeightedScore is exact.  NaN and undefined are two values      *)
(* outside the range of the numbers.                                       *)
(*                                                                         *)
(* Text.  A string field (reason, axisEvidence) is a sequence of tokens;   *)
(* a template literal concatenates token sequences.  The value undefined   *)
(* of such a field is UndefText, the empty string is << >>.                *)
(*                                                                         *)
(* Specifications.  Spec: the analysis calls of the engines.  StanceSpec:  *)
(* the exported stance functions.  EvaluationSpec: evaluateStanceAccuracy. *)
(* ConfigSpec: the engine factories, updateConfig and getConfig.           *)
(* ParseSpec: GroqEngine.parseJSON on the characters of a text.            *)
(***************************************************************************)
EXTENDS Integers, Sequences, FiniteSets, TLC

\* ------------------------------------------------------------------ bounds

\* The largest number of comments in one request.
MaxComments == 2

\* The largest number of items in one backend reply.
MaxItems == 2

\* ------------------------------------------------------------- JS values

\* The fixed-point unit: the score 1.0.
One == 700

NaN == 1000 * One

Undefined == NaN + 1

Undef == "undefined"

UndefText == <<"undefined">>

UndefList == <<"undefined">>

IsNumber(x) == x # NaN /\ x # Undefined

\* ToNumber(undefined) is NaN.
ToNumber(x) == IF x = Undefined THEN NaN ELSE x

\* Math.min: NaN if either argument is NaN.
MathMin(a, b) ==
    LET x == ToNumber(a)
        y == ToNumber(b)
    IN IF x = NaN \/ y = NaN THEN NaN ELSE IF x < y THEN x ELSE y

\* Math.max: NaN if either argument is NaN.
MathMax(a, b) ==
    LET x == ToNumber(a)
        y == ToNumber(b)
    IN IF x = NaN \/ y = NaN THEN NaN ELSE IF x > y THEN x ELSE y

\* a * k for an integer k (NaN propagates).
Times(a, k) == IF ToNumber(a) = NaN THEN NaN ELSE a * k

\* a / k for an integer k that divides a (NaN propagates).
DividedBy(a, k) == IF ToNumber(a) = NaN THEN NaN ELSE a \div k

\* Math.log10 on the powers of ten.
RECURSIVE Log10(_)
Log10(n) == IF n < 10 THEN 0 ELSE 1 + Log10(n \div 10)

\* x || d on a number field (0, NaN and undefined are falsy).
NumOr(x, d) == IF x = Undefined \/ x = NaN \/ x = 0 THEN d ELSE x

\* x || d on a string field.
StrOr(x, d) == IF x = Undef \/ x = "" THEN d ELSE x

\* x || d on a text field.
TextOr(x, d) == IF x = UndefText \/ x = << >> THEN d ELSE x

\* x || d on an array field (an empty array is truthy).
ListOr(x, d) == IF x = UndefList THEN d ELSE x

\* !!x on a boolean field held as "true" / "false" / "undefined".
BangBang(x) == IF x = "true" THEN "true" ELSE "false"

\* ------------------------------------------------------------ stance logic

StanceLabels == {"Support", "Oppose", "Neutral", "Unknown"}

ReplyRelations == {"agree", "disagree", "clarify", "question", "unrelated"}

\* synthesizeStance where disagree keeps the parent's label.
synthesizeStanceWithoutFlip(parentLabel, replyRelation) ==
    IF replyRelation \in {"unrelated", "clarify", "question"} THEN "Neutral"
    ELSE IF replyRelation \in {"disagree", "agree"} THEN parentLabel
    ELSE "Unknown"

synthesizeStance(parentLabel, replyRelation) ==
    IF replyRelation \in {"unrelated", "clarify", "question"} THEN "Neutral"
    ELSE IF replyRelation = "disagree" THEN
        (IF parentLabel = "Support" THEN "Oppose"
         ELSE IF parentLabel = "Oppose" THEN "Support"
         ELSE IF parentLabel = "Neutral" THEN "Neutral"
         ELSE "Unknown")
    ELSE IF replyRelation = "agree" THEN parentLabel
    ELSE "Unknown"

\* The synthesizeStance the axis-logic tests define for themselves and call.
testSynthesizeStance(parentLabel, replyRelation) ==
    IF replyRelation \in {"unrelated", "clarify", "question"} THEN "Neutral"
    ELSE IF replyRelation = "disagree" THEN
        (IF parentLabel = "Support" THEN "Oppose"
         ELSE IF parentLabel = "Oppose" THEN "Support"
         ELSE "Neutral")
    ELSE IF replyRelation = "agree" THEN parentLabel
    ELSE "Unknown"

\* labelToScore without the sign of Oppose.
labelToScoreUnsigned(label) ==
    IF label \in {"Support", "Oppose"} THEN (85 * One) \div 100 ELSE 0

labelToScore(label) ==
    CASE label = "Support" -> (85 * One) \div 100
      [] label = "Oppose" -> 0 - ((85 * One) \div 100)
      [] label = "Neutral" -> 0
      [] label = "Unknown" -> 0
      [] OTHER -> 0

\* Every comparison with NaN is false, so NaN comes out as Unknown.
scoreToLabel(score) ==
    IF ~IsNumber(score) THEN "Unknown"
    ELSE IF score >= (7 * One) \div 10 THEN "Support"
    ELSE IF score <= 0 - ((7 * One) \div 10) THEN "Oppose"
    ELSE IF (IF score < 0 THEN 0 - score ELSE score) < (3 * One) \div 10 THEN "Neutral"
    ELSE "Unknown"

\* Map.get after the forEach(set): the index of the last entry with the key,
\* 0 if none.
LastIndexWith(keys, key) ==
    LET hits == {i \in 1..Len(keys) : keys[i] = key}
    IN IF hits = {} THEN 0 ELSE CHOOSE i \in hits : \A j \in hits : j <= i

\* Array.prototype.find on a key: the index of the first entry with the key,
\* 0 if none.
FirstIndexWith(keys, key) ==
    LET hits == {i \in 1..Len(keys) : keys[i] = key}
    IN IF hits = {} THEN 0 ELSE CHOOSE i \in hits : \A j \in hits : i <= j

\* SynthesizedJudgment with the score the backend proposed.
SynthesizedKeepingScore(analysis, parentLabel) ==
    [analysis EXCEPT !.label = synthesizeStance(parentLabel, analysis.replyRelation)]

SynthesizedJudgment(analysis, parentLabel) ==
    LET synthesizedLabel == synthesizeStance(parentLabel, analysis.replyRelation)
    IN [analysis EXCEPT
          !.label = synthesizedLabel,
          !.score = labelToScore(synthesizedLabel),
          !.axisEvidence =
              IF analysis.axisEvidence # UndefText /\ analysis.axisEvidence # << >>
              THEN <<"ThreadContext", parentLabel, analysis.replyRelation>>
                       \o analysis.axisEvidence
              ELSE <<"SynthesizedFromParent", parentLabel, analysis.replyRelation>>,
          !.reason = <<"Original", analysis.label, "Synthesized", synthesizedLabel,
                       "Parent", parentLabel, "Relation", analysis.replyRelation>>]

\* applyStanceSynthesis without the test of the reply's replyRelation.
applyStanceSynthesisAnyRelation(analyses, comments) ==
    LET One1(analysis) ==
            LET ci == LastIndexWith([i \in 1..Len(comments) |-> comments[i].id], analysis.commentId)
                pid == IF ci = 0 THEN 0 ELSE comments[ci].parentId
                pi == LastIndexWith([i \in 1..Len(analyses) |-> analyses[i].commentId], pid)
            IN IF ci = 0 \/ pid = 0 THEN analysis
               ELSE IF pi = 0 \/ analyses[pi].label = Undef THEN analysis
               ELSE SynthesizedJudgment(analysis, analyses[pi].label)
    IN [i \in 1..Len(analyses) |-> One1(analyses[i])]

applyStanceSynthesis(analyses, comments) ==
    LET One1(analysis) ==
            LET ci == LastIndexWith([i \in 1..Len(comments) |-> comments[i].id], analysis.commentId)
                pid == IF ci = 0 THEN 0 ELSE comments[ci].parentId
                pi == LastIndexWith([i \in 1..Len(analyses) |-> analyses[i].commentId], pid)
            IN IF ci = 0 \/ pid = 0 THEN analysis
               ELSE IF pi = 0 \/ analyses[pi].label = Undef THEN analysis
               ELSE IF analysis.replyRelation = Undef THEN analysis
               ELSE SynthesizedJudgment(analysis, analyses[pi].label)
    IN [i \in 1..Len(analyses) |-> One1(analyses[i])]

\* sortCommentsByThreadOrder returning the replies first.
sortRepliesFirst(comments) ==
    SelectSeq(comments, LAMBDA c : c.parentId # 0)
        \o SelectSeq(comments, LAMBDA c : c.parentId = 0)

sortCommentsByThreadOrder(comments) ==
    SelectSeq(comments, LAMBDA c : c.parentId = 0)
        \o SelectSeq(comments, LAMBDA c : c.parentId # 0)

\* ------------------------------------------------------------------ inputs

\* Comment ids are 1..MaxComments; StrangerId is an id that is in no request.
StrangerId == MaxComments + 1

\* likeCount + 1 is a power of ten.
LikeCounts == {0, 9}

\* A request lists comments 1..n in this order (ids are only compared for
\* equality, so the order of the ids themselves carries nothing).
CommentSeqs(parents) ==
    UNION {{cs \in [1..n -> [id : 1..n, likeCount : LikeCounts, parentId : parents]] :
               \A i \in 1..n : cs[i].id = i /\ cs[i].parentId # i}
           : n \in 0..MaxComments}

\* analyzeBatch does not read parentId.
FlatRequests == CommentSeqs({0})

\* analyzeAxisBatch: a comment is top-level (0), a reply to a comment of the
\* request or a reply to a comment outside it.
ThreadRequests == CommentSeqs(0..StrangerId)

Item(commentId, score, emotions, isSarcasm, reason, label, confidence, axisEvidence, replyRelation) ==
    [commentId |-> commentId, score |-> score, emotions |-> emotions,
     isSarcasm |-> isSarcasm, reason |-> reason, label |-> label,
     confidence |-> confidence, axisEvidence |-> axisEvidence,
     replyRelation |-> replyRelation]

\* An item with only its commentId.
SparseItem(commentId) ==
    Item(commentId, Undefined, UndefList, Undef, UndefText, Undef, Undefined, UndefText,
         Undef)

\* An item with every field of GroqResponse / GeminiResponse.
FullItem(commentId, score) ==
    Item(commentId, score, <<"joy">>, "true", <<"because">>, Undef, Undefined,
         UndefText, Undef)

\* The scores a backend sends: inside and outside [-1, 1].
BackendScores == {0 - (One \div 2), 5 * One}

PlainItems ==
    {SparseItem(id) : id \in 1..StrangerId}
        \cup {FullItem(id, s) : id \in 1..StrangerId, s \in BackendScores}

\* The items of AxisGroqResponse: label, score and replyRelation each present
\* or absent.
AxisItems ==
    {Item(id, s, <<"joy">>, "true", <<"because">>, l, One \div 2, <<"quote">>, r) :
        id \in 1..StrangerId, s \in {Undefined, 5 * One},
        l \in {Undef, "Support"}, r \in {Undef, "disagree", "agree"}}

SeqsUpTo(S, n) == UNION {[1..k -> S] : k \in 0..n}

\* A decoded JSON value: an array of items, or an object that may hold an
\* array under comments, analyses or results (has names the fields it
\* holds) and may itself be an item.  The objects hold one of the three
\* fields, or comments next to analyses, or none.
ArrayValue(items) == [isArray |-> TRUE, items |-> items]

ObjectValue(has, comments, analyses, results, self) ==
    [isArray |-> FALSE, has |-> has, comments |-> comments,
     analyses |-> analyses, results |-> results, self |-> self]

Values(items) ==
    {ArrayValue(a) : a \in SeqsUpTo(items, MaxItems)}
        \cup {ObjectValue({"comments"}, a, << >>, << >>, SparseItem(0)) : a \in SeqsUpTo(items, 1)}
        \cup {ObjectValue({"analyses"}, << >>, a, << >>, SparseItem(0)) : a \in SeqsUpTo(items, 1)}
        \cup {ObjectValue({"results"}, << >>, << >>, a, SparseItem(0)) : a \in SeqsUpTo(items, 1)}
        \cup {ObjectValue({"comments", "analyses"}, <<it>>, <<SparseItem(StrangerId)>>, << >>,
                           SparseItem(0)) : it \in items}
        \cup {ObjectValue({}, << >>, << >>, << >>, it) : it \in items}

\* The text a backend sends, by what decoding makes of it: a value, or a
\* syntax error whose message (which quotes the text and a position) does or
\* does not contain one of "429", "413", "quota", "rate_limit_exceeded".
DecodableText(value) == [decodable |-> TRUE, value |-> value]

GarbledText(quotaWords) == [decodable |-> FALSE, quotaWords |-> quotaWords]

\* No failed_generation.
NoText == [decodable |-> FALSE, quotaWords |-> FALSE]

Texts(items) ==
    {DecodableText(v) : v \in Values(items)} \cup {GarbledText(q) : q \in BOOLEAN}

\* What the catch blocks read of an error: status, error.code,
\* error.failed_generation, and whether message contains a quota word.
ErrorOf(status, code, hasFailed, failed, quotaWords) ==
    [status |-> status, code |-> code, hasFailed |-> hasFailed,
     failed_generation |-> failed, quotaWords |-> quotaWords]

\* The errors of a backend call.
BackendErrors(items) ==
    {ErrorOf(st, c, FALSE, NoText, q) :
        st \in {400, 413, 429, 500}, c \in {"json_validate_failed", "other"},
        q \in BOOLEAN}
      \cup {ErrorOf(400, "json_validate_failed", TRUE, t, q) :
               t \in Texts(items), q \in BOOLEAN}

\* -------------------------------------------------------------- judgments

\* A SentimentAnalysis; the fields an engine does not set are undefined.
Judgment(commentId, score, weightedScore, emotions, isSarcasm, reason) ==
    [commentId |-> commentId, score |-> score, weightedScore |-> weightedScore,
     emotions |-> emotions, isSarcasm |-> isSarcasm, reason |-> reason,
     label |-> Undef, confidence |-> Undefined, axisEvidence |-> UndefText,
     replyRelation |-> Undef]

AxisJudgment(j, label, confidence, axisEvidence, replyRelation) ==
    [j EXCEPT !.label = label, !.confidence = confidence,
              !.axisEvidence = axisEvidence, !.replyRelation = replyRelation]

clampScore(score) == MathMax(0 - One, MathMin(One, score))

calculateWeightedScore(score, likeCount) ==
    LET weight == 1 + Log10(likeCount + 1)
        weighted == Times(score, weight)
        normalized == DividedBy(weighted, 7)
    IN clampScore(normalized)

\* GroqEngine's private labelToScore.
GroqLabelToScore(label) ==
    CASE label = "Support" -> (85 * One) \div 100
      [] label = "Oppose" -> 0 - ((85 * One) \div 100)
      [] label = "Neutral" -> 0
      [] label = "Unknown" -> 0
      [] OTHER -> 0

\* A BatchAnalysisResponse.  processingTimeMs is 0 or Elapsed, which stands
\* for the reading Date.now() - startTime; isPartial is "true" or undefined.
Elapsed == NaN + 2

Response(analyses, processingTimeMs, tokensUsed, isPartial) ==
    [analyses |-> analyses, processingTimeMs |-> processingTimeMs,
     tokensUsed |-> tokensUsed, isPartial |-> isPartial]

EmptyResponse == Response(<< >>, 0, 0, Undef)

\* How a call ends: a returned response, or a thrown AnalysisError with its
\* code and the error it wraps (details).
Returned(response) == [kind |-> "returned", response |-> response]

Thrown(code, details) == [kind |-> "thrown", code |-> code, details |-> details]

Pending == [kind |-> "pending"]

\* An Error thrown inside the try block by parseJSON: no status, no code.
SyntaxErrorOf(text) == ErrorOf(Undefined, Undef, FALSE, NoText, text.quotaWords)

\* ------------------------------------------------------------- GroqEngine

\* FindItem without the comparison of ids: the first item, whatever its id.
FindAnyItem(parsedArray, comment) == IF Len(parsedArray) = 0 THEN 0 ELSE 1

\* The item parsedArray.find((p) => p.commentId === comment.id) returns.
FindItem(parsedArray, comment) ==
    FirstIndexWith([i \in 1..Len(parsedArray) |-> parsedArray[i].commentId], comment.id)

\* analyzeBatch: Array.isArray(parsed), then analyses, results, comments.
BatchParsedArray(parsed) ==
    IF parsed.isArray THEN parsed.items
    ELSE IF "analyses" \in parsed.has THEN parsed.analyses
    ELSE IF "results" \in parsed.has THEN parsed.results
    ELSE IF "comments" \in parsed.has THEN parsed.comments
    ELSE <<parsed.self>>

\* analyzeAxisBatch: Array.isArray(parsed), then comments, analyses, results.
AxisParsedArray(parsed) ==
    IF parsed.isArray THEN parsed.items
    ELSE IF "comments" \in parsed.has THEN parsed.comments
    ELSE IF "analyses" \in parsed.has THEN parsed.analyses
    ELSE IF "results" \in parsed.has THEN parsed.results
    ELSE <<parsed.self>>

\* Both recovery paths: parsed.comments || parsed.analyses || parsed.results.
RecoveryItems(parsed) ==
    IF parsed.isArray THEN parsed.items
    ELSE IF "comments" \in parsed.has THEN parsed.comments
    ELSE IF "analyses" \in parsed.has THEN parsed.analyses
    ELSE IF "results" \in parsed.has THEN parsed.results
    ELSE <<parsed.self>>

\* SkippedJudgment with an empty emotions array.
SkippedWithoutEmotion(comment, reason) ==
    Judgment(comment.id, 0, 0, << >>, "false", reason)

SkippedJudgment(comment, reason) ==
    Judgment(comment.id, 0, 0, <<"neutral">>, "false", reason)

\* The judgment analyzeBatch builds from a reply item.
ItemJudgment(item, comment, noReason) ==
    Judgment(item.commentId, clampScore(item.score),
             calculateWeightedScore(item.score, comment.likeCount),
             ListOr(item.emotions, <<"neutral">>), BangBang(item.isSarcasm),
             TextOr(item.reason, noReason))

BatchAnalyses(comments, parsedArray) ==
    [i \in 1..Len(comments) |->
        LET k == FindItem(parsedArray, comments[i])
        IN IF k = 0
           THEN SkippedJudgment(comments[i], <<"Groq skipped this comment in batch analysis">>)
           ELSE ItemJudgment(parsedArray[k], comments[i], <<"No reason provided">>)]

BatchRecoveryAnalyses(comments, items) ==
    [i \in 1..Len(comments) |->
        LET k == FindItem(items, comments[i])
        IN IF k = 0
           THEN SkippedJudgment(comments[i], <<"Skipped in recovery">>)
           ELSE ItemJudgment(items[k], comments[i], <<"Recovered from partial JSON">>)]

\* isQuotaError without the status 413.
isQuotaErrorWithout413(error) == error.status = 429 \/ error.quotaWords

isQuotaError(error) ==
    error.status = 429 \/ error.status = 413 \/ error.quotaWords

QuotaFallback(comments) ==
    [i \in 1..Len(comments) |->
        SkippedJudgment(comments[i], <<"Analysis skipped due to Groq API limits.">>)]

\* The tail of both catch blocks: quota fallback or AnalysisError.
QuotaOrThrow(error, fallbackAnalyses, code) ==
    IF isQuotaError(error)
    THEN Returned(Response(fallbackAnalyses, Elapsed, 0, "true"))
    ELSE Thrown(code, error)

\* Whether the catch block enters the json_validate_failed recovery.
TriesRecovery(error) ==
    error.status = 400 /\ error.code = "json_validate_failed" /\ error.hasFailed

\* analyzeBatch's catch block.
BatchCatch(comments, error) ==
    IF TriesRecovery(error) /\ error.failed_generation.decodable
    THEN Returned(Response(
             BatchRecoveryAnalyses(comments, RecoveryItems(error.failed_generation.value)),
             Elapsed, 0, Undef))
    ELSE QuotaOrThrow(error, QuotaFallback(comments), "GROQ_BATCH_ERROR")

\* analyzeBatch's try block after the backend call resolved with text and
\* usage.total_tokens.
BatchTry(comments, text, totalTokens) ==
    IF text.decodable
    THEN Returned(Response(BatchAnalyses(comments, BatchParsedArray(text.value)),
                           Elapsed, NumOr(totalTokens, 0), Undef))
    ELSE BatchCatch(comments, SyntaxErrorOf(text))

\* request.comments.find(c => c.id === id): the first comment with the id.
FindComment(comments, id) == FirstIndexWith([i \in 1..Len(comments) |-> comments[i].id], id)

\* analyzeAxisBatch: sortedOrder.map(find).filter(defined).
SortedComments(comments) ==
    LET commentOrder == [i \in 1..Len(comments) |->
                            [id |-> comments[i].id, parentId |-> comments[i].parentId]]
        sortedOrder == sortCommentsByThreadOrder(commentOrder)
        found == [i \in 1..Len(sortedOrder) |-> FindComment(comments, sortedOrder[i].id)]
        kept == SelectSeq(found, LAMBDA k : k # 0)
    IN [i \in 1..Len(kept) |-> comments[kept[i]]]

AxisSkippedJudgment(comment, reason, axisEvidence) ==
    AxisJudgment(SkippedJudgment(comment, reason), "Unknown", 0, axisEvidence, Undef)

\* The judgment pass 1 builds from a reply item (replyRelation added by the
\* caller on the normal path only).
AxisItemJudgment(item, comment, noReason, replyRelation) ==
    LET scoreFromLabel == GroqLabelToScore(item.label)
        finalScore == IF item.score # Undefined THEN item.score ELSE scoreFromLabel
    IN AxisJudgment(
           Judgment(item.commentId, clampScore(finalScore),
                    calculateWeightedScore(finalScore, comment.likeCount),
                    ListOr(item.emotions, <<"neutral">>), BangBang(item.isSarcasm),
                    TextOr(item.reason, noReason)),
           StrOr(item.label, "Unknown"), NumOr(item.confidence, One \div 2),
           TextOr(item.axisEvidence, << >>), replyRelation)

AxisPass1(sortedComments, parsedArray) ==
    [i \in 1..Len(sortedComments) |->
        LET k == FindItem(parsedArray, sortedComments[i])
        IN IF k = 0
           THEN AxisSkippedJudgment(sortedComments[i],
                    <<"Groq skipped this comment in axis analysis">>,
                    <<"No analysis available">>)
           ELSE AxisItemJudgment(parsedArray[k], sortedComments[i],
                    <<"No reason provided">>, parsedArray[k].replyRelation)]

\* Recalculate weighted scores after synthesis.
Reweighted(analyses, sortedComments) ==
    [i \in 1..Len(analyses) |->
        LET c == FindComment(sortedComments, analyses[i].commentId)
        IN IF c = 0 THEN analyses[i]
           ELSE [analyses[i] EXCEPT !.weightedScore =
                    calculateWeightedScore(analyses[i].score, sortedComments[c].likeCount)]]

AxisAnalyses(sortedComments, parsedArray) ==
    Reweighted(applyStanceSynthesis(AxisPass1(sortedComments, parsedArray), sortedComments),
               sortedComments)

AxisRecoveryAnalyses(sortedComments, items) ==
    applyStanceSynthesis(
        [i \in 1..Len(sortedComments) |->
            LET k == FindItem(items, sortedComments[i])
            IN IF k = 0
               THEN AxisSkippedJudgment(sortedComments[i], <<"Skipped in recovery">>,
                                        <<"Skipped">>)
               ELSE AxisItemJudgment(items[k], sortedComments[i],
                                     <<"Recovered from partial JSON">>, Undef)],
        sortedComments)

AxisQuotaFallback(comments) ==
    [i \in 1..Len(comments) |->
        AxisSkippedJudgment(comments[i], <<"Analysis skipped due to Groq API limits.">>,
                            <<"API quota exceeded">>)]

\* analyzeAxisBatch's catch block.
AxisCatch(comments, error) ==
    IF TriesRecovery(error) /\ error.failed_generation.decodable
    THEN Returned(Response(
             AxisRecoveryAnalyses(SortedComments(comments),
                                  RecoveryItems(error.failed_generation.value)),
             Elapsed, 0, Undef))
    ELSE QuotaOrThrow(error, AxisQuotaFallback(comments), "GROQ_AXIS_BATCH_ERROR")

\* analyzeAxisBatch's try block after the backend call resolved.
AxisTry(comments, text, totalTokens) ==
    IF text.decodable
    THEN Returned(Response(
             AxisAnalyses(SortedComments(comments), AxisParsedArray(text.value)),
             Elapsed, NumOr(totalTokens, 0), Undef))
    ELSE AxisCatch(comments, SyntaxErrorOf(text))

\* The object analyzeComment reads the fields of (an array has none of them).
ParsedObject(parsed) == IF parsed.isArray THEN SparseItem(0) ELSE parsed.self

\* A SentimentAnalysis returned on its own.
Single(judgment) == Returned(Response(<<judgment>>, Undefined, Undefined, Undef))

\* GroqEngine.analyzeComment's catch block.
CommentCatch(comment, error) ==
    IF TriesRecovery(error) /\ error.failed_generation.decodable
    THEN LET parsed == ParsedObject(error.failed_generation.value)
         IN Single(Judgment(comment.id, clampScore(parsed.score),
                            calculateWeightedScore(parsed.score, comment.likeCount),
                            ListOr(parsed.emotions, <<"neutral">>),
                            BangBang(parsed.isSarcasm),
                            TextOr(parsed.reason, <<"Recovered from partial JSON">>)))
    ELSE Thrown("GROQ_ERROR", error)

\* GroqEngine.analyzeComment's try block after the backend call resolved.
CommentTry(comment, text) ==
    IF text.decodable
    THEN LET parsed == ParsedObject(text.value)
         IN Single(Judgment(comment.id, clampScore(parsed.score),
                            calculateWeightedScore(parsed.score, comment.likeCount),
                            parsed.emotions, parsed.isSarcasm, parsed.reason))
    ELSE CommentCatch(comment, SyntaxErrorOf(text))

\* ----------------------------------------------------------- GeminiEngine

\* What createBatchPrompt and the reply add to the character count.
PromptChars(comments) == 40 * (1 + Len(comments))

ResponseChars(parsedArray) == 2 + 20 * Len(parsedArray)

\* Math.ceil(totalChars / 5 * 1.3).
estimateTokens(promptChars, responseChars) ==
    ((promptChars + responseChars) * 13 + 49) \div 50

GeminiClampScore(score) == MathMax(0 - One, MathMin(One, score))

GeminiWeightedScore(score, likeCount) ==
    LET weight == 1 + Log10(likeCount + 1)
        weighted == Times(score, weight)
        normalized == DividedBy(weighted, 7)
    IN GeminiClampScore(normalized)

\* parsedArray.map(...): one analysis per reply item.
GeminiAnalyses(comments, parsedArray) ==
    [k \in 1..Len(parsedArray) |->
        LET item == parsedArray[k]
            c == FindComment(comments, item.commentId)
            likeCount == IF c = 0 THEN 0 ELSE NumOr(comments[c].likeCount, 0)
        IN Judgment(item.commentId, GeminiClampScore(item.score),
                    GeminiWeightedScore(item.score, likeCount),
                    item.emotions, item.isSarcasm, item.reason)]

\* Error("Expected JSON array response from Gemini").
NotAnArrayError == ErrorOf(Undefined, Undef, FALSE, NoText, FALSE)

\* GeminiEngine.analyzeBatch's catch block: every error is rethrown.
GeminiBatchCatch(error) == Thrown("GEMINI_BATCH_ERROR", error)

\* GeminiEngine.analyzeBatch's try block after generateContent resolved.
GeminiBatchTry(comments, text) ==
    IF text.decodable /\ text.value.isArray
    THEN Returned(Response(GeminiAnalyses(comments, text.value.items), Elapsed,
                           estimateTokens(PromptChars(comments),
                                          ResponseChars(text.value.items)),
                           Undef))
    ELSE IF text.decodable THEN GeminiBatchCatch(NotAnArrayError)
    ELSE GeminiBatchCatch(SyntaxErrorOf(text))

\* GeminiEngine.analyzeComment.
GeminiCommentTry(comment, text) ==
    IF text.decodable
    THEN LET parsed == ParsedObject(text.value)
         IN Single(Judgment(comment.id, GeminiClampScore(parsed.score),
                            GeminiWeightedScore(parsed.score, comment.likeCount),
                            parsed.emotions, parsed.isSarcasm, parsed.reason))
    ELSE Thrown("GEMINI_ERROR", SyntaxErrorOf(text))

\* ---------------------------------------------------------- state machine

VARIABLES
    engine,     \* the engine the caller invoked: its name, "" before the call
    op,         \* the operation invoked
    comments,   \* request.comments (a single comment for analyzeComment)
    backend,    \* how the backend call settled
    outcome,    \* how the invocation ended: Pending, Returned(..), Thrown(..)
    calls,      \* the backend calls the invocation has issued
    args,       \* the arguments of a call of an exported pure function
    ret,        \* what that call returned
    config,     \* this.config of the engine, once constructed
    env         \* process.env, where a factory reads it

vars == <<engine, op, comments, backend, outcome, calls, args, ret, config, env>>

\* No engine is constructed.
NoConfig == << >>

\* No factory reads the environment.
NoEnv == << >>

\* No pure function is being called.
NoArgs == [fn |-> "none"]

NoResult == [done |-> FALSE]

Result(value) == [done |-> TRUE, value |-> value]

NotCalled == [settled |-> "none"]

Resolved(text, totalTokens) ==
    [settled |-> "resolved", text |-> text, totalTokens |-> totalTokens]

Rejected(error) == [settled |-> "rejected", error |-> error]

\* completion.usage?.total_tokens
TokenCounts == {Undefined, 1200}

\* The errors generateContent rejects with.
GeminiErrors ==
    {ErrorOf(st, "other", FALSE, NoText, q) : st \in {429, 500}, q \in BOOLEAN}

Init ==
    /\ engine = ""
    /\ op = ""
    /\ comments = << >>
    /\ backend = NotCalled
    /\ outcome = Pending
    /\ calls = 0
    /\ args = NoArgs
    /\ ret = NoResult
    /\ config = NoConfig
    /\ env = NoEnv

\* BatchCalled without the short circuit on the empty request.
BatchCalledAlways(e, o, cs) ==
    /\ engine = ""
    /\ engine' = e
    /\ op' = o
    /\ comments' = cs
    /\ backend' = NotCalled
    /\ outcome' = Pending
    /\ calls' = calls + 1
    /\ UNCHANGED <<args, ret, config, env>>

\* The part of a batch operation before its await: the empty request returns
\* at once, any other issues the one backend call.
BatchCalled(e, o, cs) ==
    /\ engine = ""
    /\ engine' = e
    /\ op' = o
    /\ comments' = cs
    /\ backend' = NotCalled
    /\ IF Len(cs) = 0
       THEN outcome' = Returned(EmptyResponse) /\ calls' = calls
       ELSE outcome' = Pending /\ calls' = calls + 1
    /\ UNCHANGED <<args, ret, config, env>>

\* The part of analyzeComment before its await.
CommentCalled(e, c) ==
    /\ engine = ""
    /\ engine' = e
    /\ op' = "analyzeComment"
    /\ comments' = <<c>>
    /\ backend' = NotCalled
    /\ outcome' = Pending
    /\ calls' = calls + 1
    /\ UNCHANGED <<args, ret, config, env>>

Awaiting(e, o) ==
    engine = e /\ op = o /\ outcome.kind = "pending" /\ backend.settled = "none"

Settle(b, result) ==
    /\ backend' = b
    /\ outcome' = result
    /\ UNCHANGED <<engine, op, comments, calls, args, ret, config, env>>

GroqAnalyzeBatch ==
    \E cs \in FlatRequests : BatchCalled("GroqEngine", "analyzeBatch", cs)

GroqAnalyzeBatchResolved ==
    /\ Awaiting("GroqEngine", "analyzeBatch")
    /\ \E text \in Texts(PlainItems), totalTokens \in TokenCounts :
          Settle(Resolved(text, totalTokens), BatchTry(comments, text, totalTokens))

GroqAnalyzeBatchRejected ==
    /\ Awaiting("GroqEngine", "analyzeBatch")
    /\ \E error \in BackendErrors(PlainItems) :
          Settle(Rejected(error), BatchCatch(comments, error))

GroqAnalyzeAxisBatch ==
    \E cs \in ThreadRequests : BatchCalled("GroqEngine", "analyzeAxisBatch", cs)

GroqAnalyzeAxisBatchResolved ==
    /\ Awaiting("GroqEngine", "analyzeAxisBatch")
    /\ \E text \in Texts(AxisItems), totalTokens \in TokenCounts :
          Settle(Resolved(text, totalTokens), AxisTry(comments, text, totalTokens))

GroqAnalyzeAxisBatchRejected ==
    /\ Awaiting("GroqEngine", "analyzeAxisBatch")
    /\ \E error \in BackendErrors(AxisItems) :
          Settle(Rejected(error), AxisCatch(comments, error))

GroqAnalyzeComment ==
    \E cs \in FlatRequests : Len(cs) = 1 /\ CommentCalled("GroqEngine", cs[1])

GroqAnalyzeCommentResolved ==
    /\ Awaiting("GroqEngine", "analyzeComment")
    /\ \E text \in Texts(PlainItems) :
          Settle(Resolved(text, Undefined), CommentTry(comments[1], text))

GroqAnalyzeCommentRejected ==
    /\ Awaiting("GroqEngine", "analyzeComment")
    /\ \E error \in BackendErrors(PlainItems) :
          Settle(Rejected(error), CommentCatch(comments[1], error))

GeminiAnalyzeBatch ==
    \E cs \in FlatRequests : BatchCalled("GeminiEngine", "analyzeBatch", cs)

GeminiAnalyzeBatchResolved ==
    /\ Awaiting("GeminiEngine", "analyzeBatch")
    /\ \E text \in Texts(PlainItems) :
          Settle(Resolved(text, Undefined), GeminiBatchTry(comments, text))

GeminiAnalyzeBatchRejected ==
    /\ Awaiting("GeminiEngine", "analyzeBatch")
    /\ \E error \in GeminiErrors : Settle(Rejected(error), GeminiBatchCatch(error))

GeminiAnalyzeComment ==
    \E cs \in FlatRequests : Len(cs) = 1 /\ CommentCalled("GeminiEngine", cs[1])

GeminiAnalyzeCommentResolved ==
    /\ Awaiting("GeminiEngine", "analyzeComment")
    /\ \E text \in Texts(PlainItems) :
          Settle(Resolved(text, Undefined), GeminiCommentTry(comments[1], text))

GeminiAnalyzeCommentRejected ==
    /\ Awaiting("GeminiEngine", "analyzeComment")
    /\ \E error \in GeminiErrors : Settle(Rejected(error), Thrown("GEMINI_ERROR", error))

Next ==
    \/ GroqAnalyzeBatch
    \/ GroqAnalyzeBatchResolved
    \/ GroqAnalyzeBatchRejected
    \/ GroqAnalyzeAxisBatch
    \/ GroqAnalyzeAxisBatchResolved
    \/ GroqAnalyzeAxisBatchRejected
    \/ GroqAnalyzeComment
    \/ GroqAnalyzeCommentResolved
    \/ GroqAnalyzeCommentRejected
    \/ GeminiAnalyzeBatch
    \/ GeminiAnalyzeBatchResolved
    \/ GeminiAnalyzeBatchRejected
    \/ GeminiAnalyzeComment
    \/ GeminiAnalyzeCommentResolved
    \/ GeminiAnalyzeCommentRejected

Spec == Init /\ [][Next]_vars

\* ------------------------------------------------------ stance logic calls

\* The longest thread (root, reply, reply to the reply) of a call.
MaxThread == 3

\* What a caller passes as replyRelation: the five relations, a string that
\* is none of them, and undefined.
RelationValues == ReplyRelations \cup {"other", Undef}

SynthesizeStanceArgs(parentLabel, replyRelation) ==
    [fn |-> "synthesizeStance", parentLabel |-> parentLabel, replyRelation |-> replyRelation]

TestSynthesizeStanceArgs(parentLabel, replyRelation) ==
    [fn |-> "test.synthesizeStance", parentLabel |-> parentLabel,
     replyRelation |-> replyRelation]

LabelToScoreArgs(label) == [fn |-> "labelToScore", label |-> label]

ScoreToLabelArgs(score) == [fn |-> "scoreToLabel", score |-> score]

\* Scores on both sides of the thresholds 0.7 and 0.3, and NaN.
ScoreValues ==
    {(k * One) \div 100 : k \in {-100, -85, -70, -69, -30, -29, 0, 29, 30, 69, 70, 85, 100}}
        \cup {NaN}

ScalarCalls ==
    {SynthesizeStanceArgs(p, r) : p \in StanceLabels, r \in RelationValues}
        \cup {TestSynthesizeStanceArgs(p, r) : p \in StanceLabels, r \in ReplyRelations}
        \cup {LabelToScoreArgs(l) : l \in StanceLabels \cup {Undef}}
        \cup {ScoreToLabelArgs(x) : x \in ScoreValues}

\* A comment as the stance logic reads it: id and parentId (0: none).
ThreadComment(id, parentId) == [id |-> id, likeCount |-> 0, parentId |-> parentId]

\* Up to MaxThread comments with distinct ids, in any order; a parent is any
\* other id, in the sequence or not.
ThreadOrders ==
    {cs \in SeqsUpTo({ThreadComment(i, p) : i \in 1..MaxThread, p \in 0..MaxThread}, MaxThread) :
        \A i \in 1..Len(cs) :
            /\ cs[i].parentId # cs[i].id
            /\ \A j \in 1..Len(cs) : cs[i].id = cs[j].id => i = j}

\* The judgment pass 1 hands to the synthesis: the label and the
\* replyRelation the backend proposed, with a score that is not the label's.
ThreadJudgment(id, label, replyRelation) ==
    AxisJudgment(Judgment(id, One \div 2, One \div 14, <<"joy">>, "false", <<"because">>),
                 label, One \div 2, <<"quote">>, replyRelation)

\* For each id of a thread: whether the comment is listed (parentId -1: not
\* listed), and whether it has a judgment, with which label and relation.
ThreadChoices ==
    LET options == [parentId : -1..MaxThread, judged : BOOLEAN,
                    label : {Undef, "Support", "Oppose"},
                    replyRelation : {Undef, "disagree", "agree"}]
    IN {choice \in [1..MaxThread -> options] :
           \A i \in 1..MaxThread :
               /\ choice[i].parentId # i
               /\ ~choice[i].judged =>
                      choice[i].label = Undef /\ choice[i].replyRelation = Undef}

ThreadAnalyses(choice) ==
    LET all == [i \in 1..MaxThread |->
                   ThreadJudgment(IF choice[i].judged THEN i ELSE 0,
                                  choice[i].label, choice[i].replyRelation)]
    IN SelectSeq(all, LAMBDA a : a.commentId # 0)

ThreadComments(choice) ==
    LET all == [i \in 1..MaxThread |->
                   ThreadComment(IF choice[i].parentId = -1 THEN 0 ELSE i,
                                 choice[i].parentId)]
    IN SelectSeq(all, LAMBDA c : c.id # 0)

ApplyStanceSynthesisArgs(analyses, cs) ==
    [fn |-> "applyStanceSynthesis", analyses |-> analyses, comments |-> cs]

SortCommentsArgs(cs) == [fn |-> "sortCommentsByThreadOrder", comments |-> cs]

AxisPromptArgs(cs) == [fn |-> "createAxisBatchPrompt", comments |-> cs]

ThreadCalls ==
    {ApplyStanceSynthesisArgs(ThreadAnalyses(choice), ThreadComments(choice)) :
        choice \in ThreadChoices}
      \cup {SortCommentsArgs(cs) : cs \in ThreadOrders}
      \cup {AxisPromptArgs(cs) : cs \in ThreadOrders}

\* The comments analyzeAxisBatch lists in its prompt: sortedComments, each as
\* createAxisBatchPrompt writes it.
AxisPromptComments(cs) ==
    LET sortedComments == SortedComments(cs)
    IN [i \in 1..Len(sortedComments) |->
           [commentId |-> sortedComments[i].id, parentId |-> sortedComments[i].parentId]]

\* A pure function returns: the engines are not involved.
Return(fn, value) ==
    /\ args.fn = fn
    /\ ~ret.done
    /\ ret' = Result(value)
    /\ UNCHANGED <<engine, op, comments, backend, outcome, calls, args, config, env>>

SynthesizeStance ==
    Return("synthesizeStance", synthesizeStance(args.parentLabel, args.replyRelation))

TestSynthesizeStance ==
    Return("test.synthesizeStance",
           testSynthesizeStance(args.parentLabel, args.replyRelation))

LabelToScore == Return("labelToScore", labelToScore(args.label))

ScoreToLabel == Return("scoreToLabel", scoreToLabel(args.score))

ApplyStanceSynthesis ==
    Return("applyStanceSynthesis", applyStanceSynthesis(args.analyses, args.comments))

SortCommentsByThreadOrder ==
    Return("sortCommentsByThreadOrder", sortCommentsByThreadOrder(args.comments))

\* analyzeAxisBatch from the sorting to the prompt.
AxisBatchPrompt == Return("createAxisBatchPrompt", AxisPromptComments(args.comments))

StanceInit ==
    /\ engine = ""
    /\ op = ""
    /\ comments = << >>
    /\ backend = NotCalled
    /\ outcome = Pending
    /\ calls = 0
    /\ args \in ScalarCalls \cup ThreadCalls
    /\ ret = NoResult
    /\ config = NoConfig
    /\ env = NoEnv

StanceNext ==
    \/ SynthesizeStance
    \/ TestSynthesizeStance
    \/ LabelToScore
    \/ ScoreToLabel
    \/ ApplyStanceSynthesis
    \/ SortCommentsByThreadOrder
    \/ AxisBatchPrompt

StanceSpec == StanceInit /\ [][StanceNext]_vars

\* ----------------------------------------------------- accuracy evaluation

\* The quotient of two counts is kept exact, as a fraction in lowest terms.
RECURSIVE Gcd(_, _)
Gcd(a, b) == IF b = 0 THEN a ELSE Gcd(b, a % b)

\* a / b for a >= 0 and b > 0.
Ratio(a, b) == [num |-> a \div Gcd(a, b), den |-> b \div Gcd(a, b)]

RatioZero == Ratio(0, 1)

RatioPlus(x, y) == Ratio(x.num * y.den + y.num * x.den, x.den * y.den)

RatioTimes(x, y) == Ratio(x.num * y.num, x.den * y.den)

\* RatioOver without the division.
RatioOverOne(x, y) == x

\* x / y for y > 0.
RatioOver(x, y) == Ratio(x.num * y.den, x.den * y.num)

\* labels, in the order of perLabelMetrics.
LabelOrder == <<"Support", "Oppose", "Neutral", "Unknown">>

\* getCriticalErrorSeverity where only Support predicted as Oppose is high.
getSeverityOneWay(expected, predicted) ==
    IF expected = "Support" /\ predicted = "Oppose" THEN "high"
    ELSE IF \/ expected \in {"Support", "Oppose"} /\ predicted = "Neutral"
            \/ expected = "Neutral" /\ predicted \in {"Support", "Oppose"}
    THEN "medium"
    ELSE IF expected = "Unknown" \/ predicted = "Unknown" THEN "low"
    ELSE "null"

\* getCriticalErrorSeverity without the low severity of the Unknown pairs.
getSeverityWithoutLow(expected, predicted) ==
    IF \/ expected = "Support" /\ predicted = "Oppose"
       \/ expected = "Oppose" /\ predicted = "Support"
    THEN "high"
    ELSE IF \/ expected \in {"Support", "Oppose"} /\ predicted = "Neutral"
            \/ expected = "Neutral" /\ predicted \in {"Support", "Oppose"}
    THEN "medium"
    ELSE "null"

getCriticalErrorSeverity(expected, predicted) ==
    IF \/ expected = "Support" /\ predicted = "Oppose"
       \/ expected = "Oppose" /\ predicted = "Support"
    THEN "high"
    ELSE IF \/ expected \in {"Support", "Oppose"} /\ predicted = "Neutral"
            \/ expected = "Neutral" /\ predicted \in {"Support", "Oppose"}
    THEN "medium"
    ELSE IF expected = "Unknown" \/ predicted = "Unknown" THEN "low"
    ELSE "null"

CriticalError(commentId, text, expected, predicted, severity, reason) ==
    [commentId |-> commentId, text |-> text, expected |-> expected,
     predicted |-> predicted, severity |-> severity, reason |-> reason]

\* gtMap.get(commentId): the index of the ground-truth item, 0 if none.
GtIndex(groundTruth, commentId) ==
    LastIndexWith([i \in 1..Len(groundTruth) |-> groundTruth[i].commentId], commentId)

\* The accumulators before the forEach.
EvaluationStart ==
    [confusionMatrix |-> [e \in StanceLabels |-> [q \in StanceLabels |-> 0]],
     criticalErrors |-> << >>,
     correctPredictions |-> 0]

\* Counted with row and column exchanged.
CountedTransposed(acc, expected, predicted) ==
    [acc EXCEPT !.confusionMatrix[predicted][expected] = @ + 1]

\* confusionMatrix[expected][predicted]++
Counted(acc, expected, predicted) ==
    [acc EXCEPT !.confusionMatrix[expected][predicted] = @ + 1]

\* EvaluationStep that counts a prediction without a label as Unknown.
EvaluationStepUnlabelled(acc, pred, groundTruth) ==
    LET g == GtIndex(groundTruth, pred.commentId)
    IN IF g = 0 THEN acc
       ELSE LET expected == groundTruth[g].expectedLabel
                predicted == StrOr(pred.label, "Unknown")
            IN [Counted(acc, expected, predicted) EXCEPT
                   !.correctPredictions = IF expected = predicted THEN @ + 1 ELSE @]

\* One turn of predictions.forEach.
EvaluationStep(acc, pred, groundTruth) ==
    LET g == GtIndex(groundTruth, pred.commentId)
    IN IF g = 0 \/ pred.label = Undef \/ pred.label = "" THEN acc
       ELSE LET expected == groundTruth[g].expectedLabel
                predicted == pred.label
                counted == Counted(acc, expected, predicted)
                severity == getCriticalErrorSeverity(expected, predicted)
            IN IF expected = predicted
               THEN [counted EXCEPT !.correctPredictions = @ + 1]
               ELSE IF severity = "null" THEN counted
               ELSE [counted EXCEPT !.criticalErrors =
                        Append(@, CriticalError(pred.commentId, groundTruth[g].text,
                                                expected, predicted, severity,
                                                TextOr(pred.reason, <<"No reason provided">>)))]

\* The accumulators after the first n turns.
RECURSIVE EvaluationAfter(_, _, _)
EvaluationAfter(predictions, groundTruth, n) ==
    IF n = 0 THEN EvaluationStart
    ELSE EvaluationStep(EvaluationAfter(predictions, groundTruth, n - 1),
                        predictions[n], groundTruth)

\* One entry of perLabelMetrics.
LabelMetrics(confusionMatrix, label) ==
    LET others == StanceLabels \ {label}
        Column(l) == IF l \in others THEN confusionMatrix[l][label] ELSE 0
        Row(l) == IF l \in others THEN confusionMatrix[label][l] ELSE 0
        truePositive == confusionMatrix[label][label]
        falsePositive == Column("Support") + Column("Oppose") + Column("Neutral")
                             + Column("Unknown")
        falseNegative == Row("Support") + Row("Oppose") + Row("Neutral") + Row("Unknown")
        precision == IF truePositive + falsePositive > 0
                     THEN Ratio(truePositive, truePositive + falsePositive) ELSE RatioZero
        recall == IF truePositive + falseNegative > 0
                  THEN Ratio(truePositive, truePositive + falseNegative) ELSE RatioZero
        f1Score == IF RatioPlus(precision, recall).num > 0
                   THEN RatioOver(RatioTimes(Ratio(2, 1), RatioTimes(precision, recall)),
                                  RatioPlus(precision, recall))
                   ELSE RatioZero
    IN [label |-> label, precision |-> precision, recall |-> recall, f1Score |-> f1Score]

evaluateStanceAccuracy(predictions, groundTruth) ==
    LET acc == EvaluationAfter(predictions, groundTruth, Len(predictions))
        totalSamples ==
            Len(SelectSeq(predictions,
                          LAMBDA q : q.label # Undef /\ q.label # ""
                                        /\ GtIndex(groundTruth, q.commentId) # 0))
        accuracy == IF totalSamples > 0 THEN Ratio(acc.correctPredictions, totalSamples)
                    ELSE RatioZero
    IN [accuracy |-> accuracy,
        totalSamples |-> totalSamples,
        correctPredictions |-> acc.correctPredictions,
        confusionMatrix |-> acc.confusionMatrix,
        criticalErrors |-> acc.criticalErrors,
        perLabelMetrics |-> [i \in 1..4 |-> LabelMetrics(acc.confusionMatrix, LabelOrder[i])]]

\* The most predictions and the most ground-truth items of a call.
MaxPredictions == 3

MaxTruth == 2

\* A prediction: evaluateStanceAccuracy reads commentId, label and reason
\* (here present on the predictions for comment 1 only).
Prediction(commentId, label) ==
    AxisJudgment(Judgment(commentId, 0, 0, <<"neutral">>, "false",
                          IF commentId = 1 THEN <<"because">> ELSE UndefText),
                 label, One \div 2, <<"quote">>, Undef)

\* Predictions for the comments of the ground truth and for one more, with
\* or without a label, in any order and number.
PredictionSeqs ==
    SeqsUpTo({Prediction(id, l) : id \in 1..(MaxTruth + 1), l \in StanceLabels \cup {Undef}},
             MaxPredictions)

GroundTruthItem(commentId, expectedLabel) ==
    [commentId |-> commentId, text |-> <<"text">>, expectedLabel |-> expectedLabel]

\* For each comment 1..MaxTruth no item, or one with an expected label.
GroundTruths ==
    {SelectSeq([i \in 1..MaxTruth |-> GroundTruthItem(i, choice[i])],
               LAMBDA gt : gt.expectedLabel # Undef) :
        choice \in [1..MaxTruth -> StanceLabels \cup {Undef}]}

EvaluationArgs(predictions, groundTruth) ==
    [fn |-> "evaluateStanceAccuracy", predictions |-> predictions,
     groundTruth |-> groundTruth]

EvaluationInit ==
    /\ engine = ""
    /\ op = ""
    /\ comments = << >>
    /\ backend = NotCalled
    /\ outcome = Pending
    /\ calls = 0
    /\ args \in {EvaluationArgs(ps, gts) : ps \in PredictionSeqs, gts \in GroundTruths}
    /\ ret = NoResult
    /\ config = NoConfig
    /\ env = NoEnv

EvaluateStanceAccuracy ==
    Return("evaluateStanceAccuracy",
           evaluateStanceAccuracy(args.predictions, args.groundTruth))

EvaluationNext == EvaluateStanceAccuracy

EvaluationSpec == EvaluationInit /\ [][EvaluationNext]_vars

\* ------------------------------------------- construction and configuration

ConfigFields == {"batchSize", "maxComments", "timeoutMs"}

\* DEFAULT_CONFIG of the Groq engine.
GroqDefaultConfig == [batchSize |-> 20, maxComments |-> 500, timeoutMs |-> 30000]

\* DEFAULT_CONFIG of the Gemini engine.
GeminiDefaultConfig == [batchSize |-> 20, maxComments |-> 500, timeoutMs |-> 30000]

\* The defaults of the mock engine, as its configuration tests state them.
MockDefaultConfig == [batchSize |-> 50, maxComments |-> 500, timeoutMs |-> 5000]

\* { ...base } where every field of the partial replaces the whole object.
SpreadReplacing(base, partial) ==
    [f \in ConfigFields |-> IF f \in DOMAIN partial THEN partial[f] ELSE Undefined]

\* { ...base, ...partial }: an own field of the partial wins, whatever its
\* value; a field the partial does not have keeps the value of the base.
Spread(base, partial) ==
    [f \in ConfigFields |-> IF f \in DOMAIN partial THEN partial[f] ELSE base[f]]

\* Partial<AnalysisEngineConfig>: any subset of the fields, each set to the
\* one number or to undefined.  An absent argument spreads like {}.
Partials(n) == UNION {[fs -> {n, Undefined}] : fs \in SUBSET ConfigFields}

ConstructorConfigs == Partials(10)

UpdateConfigs == Partials(30)

ApiKeys == {Undef, "", "key"}

\* String.prototype.toLowerCase on the values LLM_ENGINE takes.
ToLowerCase(s) == IF s = "Gemini" THEN "gemini" ELSE s

\* process.env: a variable is a string or is not set.
Envs ==
    [GROQ_API_KEY : {Undef, "key"}, GEMINI_API_KEY : {Undef, "key"},
     USE_MOCK_ENGINE : {Undef, "true"}, LLM_ENGINE : {Undef, "Gemini", "openai"}]

EngineTypes == {Undef, "mock", "gemini", "openai", "claude"}

\* throw new Error(message): an Error that is no AnalysisError, without code.
ThrownError(message) == [kind |-> "thrown", code |-> Undef, message |-> message]

RemoteEngines == {"GroqEngine", "GeminiEngine"}

getEngineTypeFromEnv ==
    IF env.USE_MOCK_ENGINE = "true" THEN "mock"
    ELSE LET llmEngine ==
                 IF env.LLM_ENGINE = Undef THEN Undef ELSE ToLowerCase(env.LLM_ENGINE)
         IN IF llmEngine = "gemini" THEN "gemini"
            ELSE IF llmEngine = "openai" THEN "openai"
            ELSE "mock"

\* new GroqEngine(key, config) / new GeminiEngine(key, config) / new
\* MockEngine(config).
Constructed(e, defaults, partial) ==
    /\ engine' = e
    /\ config' = Spread(defaults, partial)
    /\ outcome' = outcome

Throws(message) ==
    /\ outcome' = ThrownError(message)
    /\ UNCHANGED <<engine, config>>

\* createGeminiEngine(apiKey, partial), after the call is recorded.
GeminiCreated(apiKey, partial) ==
    LET key == StrOr(apiKey, env.GEMINI_API_KEY)
    IN IF key = Undef \/ key = ""
       THEN Throws("Gemini API key is required")
       ELSE Constructed("GeminiEngine", GeminiDefaultConfig, partial)

NotConstructed == engine = "" /\ outcome = Pending /\ env # NoEnv

CreateGroqEngine ==
    /\ NotConstructed
    /\ \E apiKey \in ApiKeys, partial \in ConstructorConfigs :
        /\ args' = [fn |-> "createGroqEngine", apiKey |-> apiKey, config |-> partial]
        /\ LET key == StrOr(apiKey, env.GROQ_API_KEY)
           IN IF key = Undef \/ key = ""
              THEN Throws("Groq API key is required")
              ELSE Constructed("GroqEngine", GroqDefaultConfig, partial)
    /\ UNCHANGED <<op, comments, backend, calls, ret, env>>

CreateGeminiEngine ==
    /\ NotConstructed
    /\ \E apiKey \in ApiKeys, partial \in ConstructorConfigs :
        /\ args' = [fn |-> "createGeminiEngine", apiKey |-> apiKey, config |-> partial]
        /\ GeminiCreated(apiKey, partial)
    /\ UNCHANGED <<op, comments, backend, calls, ret, env>>

CreateAnalysisEngine ==
    /\ NotConstructed
    /\ \E type \in EngineTypes, apiKey \in ApiKeys, partial \in ConstructorConfigs :
        /\ args' = [fn |-> "createAnalysisEngine", type |-> type,
                    apiKey |-> apiKey, config |-> partial]
        /\ LET engineType == StrOr(type, getEngineTypeFromEnv)
           IN CASE engineType = "mock" ->
                       Constructed("MockEngine", MockDefaultConfig, partial)
                [] engineType = "gemini" -> GeminiCreated(apiKey, partial)
                [] engineType = "openai" -> Throws("OpenAI engine not yet implemented")
                [] OTHER -> Throws("Unknown engine type")
    /\ UNCHANGED <<op, comments, backend, calls, ret, env>>

UpdateConfig ==
    /\ engine \in RemoteEngines
    /\ \E partial \in UpdateConfigs :
        /\ args' = [fn |-> "updateConfig", config |-> partial]
        /\ config' = Spread(config, partial)
    /\ ret' = NoResult
    /\ UNCHANGED <<engine, op, comments, backend, outcome, calls, env>>

GetConfig ==
    /\ engine \in RemoteEngines
    /\ args' = [fn |-> "getConfig"]
    /\ ret' = Result(Spread(config, << >>))
    /\ UNCHANGED <<engine, op, comments, backend, outcome, calls, config, env>>

ConfigInit ==
    /\ engine = ""
    /\ op = ""
    /\ comments = << >>
    /\ backend = NotCalled
    /\ outcome = Pending
    /\ calls = 0
    /\ args = NoArgs
    /\ ret = NoResult
    /\ config = NoConfig
    /\ env \in Envs

ConfigNext ==
    \/ CreateGroqEngine
    \/ CreateGeminiEngine
    \/ CreateAnalysisEngine
    \/ UpdateConfig
    \/ GetConfig

ConfigSpec == ConfigInit /\ [][ConfigNext]_vars

\* -------------------------------------------- GroqEngine.parseJSON on text
\*
\* Here a text is the sequence of its characters, and a JSON value is a tree:
\* JSON.parse and the regular expressions of parseJSON work on the characters.
\* The texts have no backslash escapes and no exponents.

Quote == "\""

Newline == "\n"

\* The character of a markdown fence (U+0060), written out.
Backtick == "backtick"

Whitespace == {" ", Newline}

DigitChars == {"0", "1", "2", "3", "4", "5", "6", "7", "8", "9"}

TrueWord == <<"t", "r", "u", "e">>

FalseWord == <<"f", "a", "l", "s", "e">>

NullWord == <<"n", "u", "l", "l">>

JsonWord == <<"j", "s", "o", "n">>

Fence == <<Backtick, Backtick, Backtick>>

\* String.prototype.toLowerCase on one character.
LowerChar(c) ==
    CASE c = "T" -> "t" [] c = "R" -> "r" [] c = "U" -> "u" [] c = "E" -> "e"
      [] c = "F" -> "f" [] c = "A" -> "a" [] c = "L" -> "l" [] c = "S" -> "s"
      [] c = "J" -> "j" [] c = "O" -> "o" [] c = "N" -> "n" [] OTHER -> c

ToLower(s) == [i \in 1..Len(s) |-> LowerChar(s[i])]

StartsWithAt(s, i, w) ==
    i + Len(w) - 1 <= Len(s) /\ SubSeq(s, i, i + Len(w) - 1) = w

StartsWithIgnoringCaseAt(s, i, w) ==
    i + Len(w) - 1 <= Len(s) /\ ToLower(SubSeq(s, i, i + Len(w) - 1)) = w

\* The first index from i on whose character is not in the class, or
\* Len(s) + 1: where a greedy class* that starts at i ends.
RunEnd(s, i, class) ==
    CHOOSE j \in i..(Len(s) + 1) :
        /\ \A k \in i..(j - 1) : s[k] \in class
        /\ (j = Len(s) + 1 \/ s[j] \notin class)

\* The first index from i on whose character is in the class, or 0.
IndexFrom(s, i, class) ==
    IF \E j \in i..Len(s) : s[j] \in class
    THEN CHOOSE j \in i..Len(s) :
             s[j] \in class /\ \A k \in i..(j - 1) : s[k] \notin class
    ELSE 0

\* String.prototype.lastIndexOf of one character, or 0.
LastIndexOf(s, c) ==
    IF \E j \in 1..Len(s) : s[j] = c
    THEN CHOOSE j \in 1..Len(s) :
             s[j] = c /\ \A k \in (j + 1)..Len(s) : s[k] # c
    ELSE 0

\* String.prototype.trim.
Trim(s) ==
    LET first == RunEnd(s, 1, Whitespace)
    IN IF first > Len(s) THEN << >>
       ELSE SubSeq(s, first,
                   CHOOSE j \in first..Len(s) :
                       /\ s[j] \notin Whitespace
                       /\ \A k \in (j + 1)..Len(s) : s[k] \in Whitespace)

\* A JSON value: a string or number (its characters), a literal (its word),
\* an array (kids) or an object (keys and kids, in the order of the text).
JValue(t, s, keys, kids) == [t |-> t, s |-> s, keys |-> keys, kids |-> kids]

JString(s) == JValue("string", s, << >>, << >>)

JNumber(s) == JValue("number", s, << >>, << >>)

JLiteral(w) == JValue("literal", w, << >>, << >>)

JArray(kids) == JValue("array", << >>, << >>, kids)

JObject(keys, kids) == JValue("object", << >>, keys, kids)

Parsed(val, next) == [ok |-> TRUE, val |-> val, next |-> next]

SyntaxError == [ok |-> FALSE, val |-> JLiteral(NullWord), next |-> 0]

\* The number a numeric literal with a fraction denotes: 0.50 is 0.5, 1.0 is 1.
RECURSIVE NumberOf(_)
NumberOf(s) ==
    IF s[Len(s)] = "0" THEN NumberOf(SubSeq(s, 1, Len(s) - 1))
    ELSE IF s[Len(s)] = "." THEN SubSeq(s, 1, Len(s) - 1)
    ELSE s

\* JSON number: -? (0 | [1-9][0-9]*) (. [0-9]+)?
ParseNumber(s, i) ==
    LET a == IF s[i] = "-" THEN i + 1 ELSE i
        b == RunEnd(s, a, DigitChars)
        c == RunEnd(s, b + 1, DigitChars)
    IN IF b = a \/ (b - a > 1 /\ s[a] = "0") THEN SyntaxError
       ELSE IF b <= Len(s) /\ s[b] = "."
       THEN IF c = b + 1 THEN SyntaxError
            ELSE Parsed(JNumber(NumberOf(SubSeq(s, i, c - 1))), c)
       ELSE Parsed(JNumber(SubSeq(s, i, b - 1)), b)

\* JSON string: no raw line break between the quotes.
ParseString(s, i) ==
    LET q == IndexFrom(s, i + 1, {Quote})
    IN IF q = 0 \/ \E k \in (i + 1)..(q - 1) : s[k] = Newline THEN SyntaxError
       ELSE Parsed(JString(SubSeq(s, i + 1, q - 1)), q + 1)

RECURSIVE ParseValue(_, _)
RECURSIVE ParseElements(_, _, _)
RECURSIVE ParseMembers(_, _, _, _)

\* The elements of an array after "[" or ",", up to and with "]".
ParseElements(s, i, kids) ==
    LET r == ParseValue(s, i)
        j == RunEnd(s, r.next, Whitespace)
    IN IF ~r.ok \/ j > Len(s) THEN SyntaxError
       ELSE IF s[j] = "," THEN ParseElements(s, j + 1, Append(kids, r.val))
       ELSE IF s[j] = "]" THEN Parsed(JArray(Append(kids, r.val)), j + 1)
       ELSE SyntaxError

\* The members of an object after "{" or ",", up to and with "}".
ParseMembers(s, i, keys, kids) ==
    LET k == RunEnd(s, i, Whitespace)
        key == IF k <= Len(s) /\ s[k] = Quote THEN ParseString(s, k) ELSE SyntaxError
        colon == RunEnd(s, key.next, Whitespace)
        r == IF key.ok /\ colon <= Len(s) /\ s[colon] = ":"
             THEN ParseValue(s, colon + 1)
             ELSE SyntaxError
        j == RunEnd(s, r.next, Whitespace)
    IN IF ~r.ok \/ j > Len(s) THEN SyntaxError
       ELSE IF s[j] = ","
       THEN ParseMembers(s, j + 1, Append(keys, key.val.s), Append(kids, r.val))
       ELSE IF s[j] = "}"
       THEN Parsed(JObject(Append(keys, key.val.s), Append(kids, r.val)), j + 1)
       ELSE SyntaxError

ParseValue(s, i0) ==
    LET i == RunEnd(s, i0, Whitespace)
        inner == RunEnd(s, i + 1, Whitespace)
    IN IF i > Len(s) THEN SyntaxError
       ELSE CASE s[i] = Quote -> ParseString(s, i)
              [] s[i] = "[" ->
                    IF inner <= Len(s) /\ s[inner] = "]"
                    THEN Parsed(JArray(<< >>), inner + 1)
                    ELSE ParseElements(s, i + 1, << >>)
              [] s[i] = "{" ->
                    IF inner <= Len(s) /\ s[inner] = "}"
                    THEN Parsed(JObject(<< >>, << >>), inner + 1)
                    ELSE ParseMembers(s, i + 1, << >>, << >>)
              [] s[i] \in DigitChars \cup {"-"} -> ParseNumber(s, i)
              [] StartsWithAt(s, i, TrueWord) -> Parsed(JLiteral(TrueWord), i + 4)
              [] StartsWithAt(s, i, FalseWord) -> Parsed(JLiteral(FalseWord), i + 5)
              [] StartsWithAt(s, i, NullWord) -> Parsed(JLiteral(NullWord), i + 4)
              [] OTHER -> SyntaxError

\* JSON.parse: one value and nothing but white space after it.
JSONParse(s) ==
    LET r == ParseValue(s, 1)
    IN IF r.ok /\ RunEnd(s, r.next, Whitespace) > Len(s) THEN r ELSE SyntaxError

\* 1. /FENCE(?:json)?\s*([\s\S]*?)\s*FENCE/i: the text between the first fence
\* and the next one, less the white space around it, if it is not empty.
StripCodeBlock(s) ==
    LET open == CHOOSE i \in 1..Len(s) :
                    StartsWithAt(s, i, Fence)
                    /\ \A k \in 1..(i - 1) : ~StartsWithAt(s, k, Fence)
        tagged == IF StartsWithIgnoringCaseAt(s, open + 3, JsonWord)
                  THEN open + 7
                  ELSE open + 3
        start == RunEnd(s, tagged, Whitespace)
        closes == {i \in start..Len(s) : StartsWithAt(s, i, Fence)}
        close == CHOOSE i \in closes : \A k \in closes : i <= k
        captured == Trim(SubSeq(s, start, close - 1))
    IN IF \A i \in 1..Len(s) : ~StartsWithAt(s, i, Fence) THEN s
       ELSE IF closes = {} \/ captured = << >> THEN s
       ELSE captured

\* 2. Without "[" or "{" in front: from the first "[" or "{" to the last "]"
\* or "}".
ExtractJSON(s) ==
    LET startIndex == IndexFrom(s, 1, {"[", "{"})
        lastBracket == LastIndexOf(s, "]")
        lastBrace == LastIndexOf(s, "}")
        endIndex == IF lastBracket > lastBrace THEN lastBracket ELSE lastBrace
    IN IF s # << >> /\ s[1] \in {"[", "{"} THEN s
       ELSE IF startIndex # 0 /\ endIndex # 0 /\ endIndex > startIndex
       THEN SubSeq(s, startIndex, endIndex)
       ELSE s

\* 3a. replace(/:\s*\+([0-9.]+)/g, ': $1'), from index i on.
RECURSIVE StripPlusSigns(_, _)
StripPlusSigns(s, i) ==
    LET plus == RunEnd(s, i + 1, Whitespace)
        end == RunEnd(s, plus + 1, DigitChars \cup {"."})
    IN IF i > Len(s) THEN << >>
       ELSE IF s[i] = ":" /\ plus <= Len(s) /\ s[plus] = "+" /\ end > plus + 1
       THEN <<":", " ">> \o SubSeq(s, plus + 1, end - 1) \o StripPlusSigns(s, end)
       ELSE <<s[i]>> \o StripPlusSigns(s, i + 1)

\* 3b. replace(/:\s*"(true|false)"/gi, ': ' + p1.toLowerCase()), from i on.
RECURSIVE UnquoteBooleans(_, _)
UnquoteBooleans(s, i) ==
    LET q == RunEnd(s, i + 1, Whitespace)
        word == IF StartsWithIgnoringCaseAt(s, q + 1, TrueWord) THEN TrueWord
                ELSE IF StartsWithIgnoringCaseAt(s, q + 1, FalseWord) THEN FalseWord
                ELSE << >>
        end == q + 1 + Len(word)
    IN IF i > Len(s) THEN << >>
       ELSE IF /\ s[i] = ":"
               /\ q <= Len(s) /\ s[q] = Quote
               /\ word # << >>
               /\ end <= Len(s) /\ s[end] = Quote
       THEN <<":", " ">> \o word \o UnquoteBooleans(s, end + 1)
       ELSE <<s[i]>> \o UnquoteBooleans(s, i + 1)

\* 3c. replace(/"([^"]+)"\s*(null|true|false|[-0-9.\[\{])/g, '"$1": $2'),
\* from index i on.
RECURSIVE InsertColons(_, _)
InsertColons(s, i) ==
    LET q == IndexFrom(s, i + 1, {Quote})
        v == RunEnd(s, q + 1, Whitespace)
        value == IF StartsWithAt(s, v, NullWord) THEN NullWord
                 ELSE IF StartsWithAt(s, v, TrueWord) THEN TrueWord
                 ELSE IF StartsWithAt(s, v, FalseWord) THEN FalseWord
                 ELSE IF v <= Len(s) /\ s[v] \in DigitChars \cup {"-", ".", "[", "{"}
                 THEN <<s[v]>>
                 ELSE << >>
    IN IF i > Len(s) THEN << >>
       ELSE IF s[i] = Quote /\ q > i + 1 /\ value # << >>
       THEN SubSeq(s, i, q) \o <<":", " ">> \o value
                \o InsertColons(s, v + Len(value))
       ELSE <<s[i]>> \o InsertColons(s, i + 1)

\* 3d. replace(/,\s*([\]\}])/g, '$1'), from index i on.
RECURSIVE RemoveTrailingCommas(_, _)
RemoveTrailingCommas(s, i) ==
    LET close == RunEnd(s, i + 1, Whitespace)
    IN IF i > Len(s) THEN << >>
       ELSE IF s[i] = "," /\ close <= Len(s) /\ s[close] \in {"]", "}"}
       THEN <<s[close]>> \o RemoveTrailingCommas(s, close + 1)
       ELSE <<s[i]>> \o RemoveTrailingCommas(s, i + 1)

\* cleanText.split('\n'), from index i on.
RECURSIVE SplitLines(_, _)
SplitLines(s, i) ==
    LET n == IndexFrom(s, i, {Newline})
    IN IF n = 0 THEN <<SubSeq(s, i, Len(s))>>
       ELSE <<SubSeq(s, i, n - 1)>> \o SplitLines(s, n + 1)

\* The lines the second attempt keeps.
LooksLikeJSON(line) ==
    LET t == Trim(line)
    IN \/ t \in {<<"{">>, <<"}">>, <<"[">>, <<"]">>, <<"}", ",">>, <<"]", ",">>}
       \/ \E k \in 1..Len(t) : t[k] = ":"
       \/ (t # << >> /\ t[Len(t)] \in {",", "}", "]"})

\* lines.filter(...).join('\n'), from line k on.
RECURSIVE JoinFiltered(_, _, _)
JoinFiltered(lines, k, first) ==
    IF k > Len(lines) THEN << >>
    ELSE IF LooksLikeJSON(lines[k])
    THEN (IF first THEN << >> ELSE <<Newline>>) \o lines[k]
             \o JoinFiltered(lines, k + 1, FALSE)
    ELSE JoinFiltered(lines, k + 1, first)

\* What the call yields: the decoded value, or the Error it throws.
Decoded(value) == [ok |-> TRUE, value |-> value]

FailedToParse == [ok |-> FALSE, value |-> JLiteral(NullWord)]

CleanText(text) ==
    LET extracted == ExtractJSON(StripCodeBlock(Trim(text)))
        a == StripPlusSigns(extracted, 1)
        b == UnquoteBooleans(a, 1)
        c == InsertColons(b, 1)
    IN RemoveTrailingCommas(c, 1)

parseJSON(text) ==
    LET cleanText == CleanText(text)
        parsed == JSONParse(cleanText)
        again == JSONParse(JoinFiltered(SplitLines(cleanText, 1), 1, TRUE))
    IN IF parsed.ok THEN Decoded(parsed.val)
       ELSE IF again.ok THEN Decoded(again.val)
       ELSE FailedToParse

\* The texts parseJSON is called with.  A tree is a JSON value of which one
\* node may be written the way a model writes it wrong: a number with a plus
\* sign in front, a boolean between quotes, an array or object with a comma
\* before its closing bracket.
Tree(t, s, keys, kids, slip) ==
    [t |-> t, s |-> s, keys |-> keys, kids |-> kids, slip |-> slip]

StringTexts ==
    {<<"a">>, <<"1", "a">>, <<"+", "1">>, <<"-", "1">>, TrueWord, FalseWord, NullWord, Fence}

NumberTexts == {<<"1">>, <<"0", ".", "5">>, <<"-", "1">>}

PlainScalars ==
    {Tree("string", s, << >>, << >>, "none") : s \in StringTexts}
        \cup {Tree("number", s, << >>, << >>, "none") : s \in NumberTexts}
        \cup {Tree("literal", w, << >>, << >>, "none") : w \in {TrueWord, FalseWord, NullWord}}

SlippedScalars ==
    {Tree("number", s, << >>, << >>, "plus") : s \in {<<"1">>, <<"0", ".", "5">>}}
        \cup {Tree("literal", w, << >>, << >>, "quoted") : w \in {TrueWord, FalseWord}}

FewScalars ==
    {Tree("string", s, << >>, << >>, "none") : s \in {<<"a">>, <<"1", "a">>, TrueWord}}
        \cup {Tree("number", <<"1">>, << >>, << >>, "none"),
              Tree("literal", TrueWord, << >>, << >>, "none"),
              Tree("literal", NullWord, << >>, << >>, "none")}

Slips == {"none", "comma"}

OneField == {Tree("object", << >>, << <<"a">> >>, <<v>>, c) : v \in PlainScalars \cup SlippedScalars, c \in Slips}

TwoFields ==
    {Tree("object", << >>, << <<"a">>, <<"b">> >>, <<v, w>>, c) :
        v \in FewScalars \cup SlippedScalars, w \in FewScalars, c \in Slips}

Arrays ==
    {Tree("array", << >>, << >>, kids, c) :
        kids \in {<< >>} \cup {<<v>> : v \in FewScalars \cup OneField}
                    \cup (FewScalars \X FewScalars),
        c \in Slips}

RECURSIVE SlipsIn(_)
SlipsIn(tree) ==
    LET RECURSIVE Sum(_)
        Sum(k) == IF k = 0 THEN 0 ELSE SlipsIn(tree.kids[k]) + Sum(k - 1)
    IN (IF tree.slip = "none" THEN 0 ELSE 1) + Sum(Len(tree.kids))

\* A comma before the closing bracket needs an element before it.
Trees ==
    {tree \in OneField \cup TwoFields \cup Arrays :
        SlipsIn(tree) <= 1 /\ (tree.slip = "comma" => tree.kids # << >>)}

\* The tree written as its value is.
RECURSIVE Unslipped(_)
Unslipped(tree) ==
    Tree(tree.t, tree.s, tree.keys,
         [k \in 1..Len(tree.kids) |-> Unslipped(tree.kids[k])], "none")

\* How a text is laid out: after a colon, after a comma, inside the brackets.
Layout(colon, comma, inside) == [colon |-> colon, comma |-> comma, inside |-> inside]

Layouts ==
    {Layout(<<":">>, <<",">>, << >>),
     Layout(<<":", " ">>, <<",", " ">>, << >>),
     Layout(<<":", " ">>, <<",", Newline>>, <<Newline>>)}

\* JSON.stringify of the tree in a layout, with its slip.
RECURSIVE Written(_, _)
Written(tree, layout) ==
    LET RECURSIVE Listed(_)
        Listed(k) ==
            IF k > Len(tree.kids) THEN << >>
            ELSE (IF k = 1 THEN << >> ELSE layout.comma)
                 \o (IF tree.t = "object"
                     THEN <<Quote>> \o tree.keys[k] \o <<Quote>> \o layout.colon
                     ELSE << >>)
                 \o Written(tree.kids[k], layout)
                 \o Listed(k + 1)
        body == IF tree.kids = << >> THEN << >>
                ELSE layout.inside \o Listed(1)
                         \o (IF tree.slip = "comma" THEN <<",">> ELSE << >>)
                         \o layout.inside
    IN CASE tree.t = "string" -> <<Quote>> \o tree.s \o <<Quote>>
         [] tree.t = "number" -> (IF tree.slip = "plus" THEN <<"+">> ELSE << >>) \o tree.s
         [] tree.t = "literal" ->
               IF tree.slip = "quoted" THEN <<Quote>> \o tree.s \o <<Quote>> ELSE tree.s
         [] tree.t = "array" -> <<"[">> \o body \o <<"]">>
         [] tree.t = "object" -> <<"{">> \o body \o <<"}">>

\* The text inside a markdown code block, tagged json or not.
Fenced(text, tag) == Fence \o tag \o <<Newline>> \o text \o <<Newline>> \o Fence

\* The slip of the tree, if it has one.
RECURSIVE SlipOf(_)
SlipOf(tree) ==
    IF tree.slip # "none" THEN tree.slip
    ELSE IF \E k \in 1..Len(tree.kids) : SlipsIn(tree.kids[k]) = 1
    THEN SlipOf(tree.kids[CHOOSE k \in 1..Len(tree.kids) : SlipsIn(tree.kids[k]) = 1])
    ELSE "none"

\* A call: the text, the valid text it was obtained from, and how.
ParseJSONArgs(text, valid, how) ==
    [fn |-> "parseJSON", text |-> text, valid |-> valid, how |-> how]

ParseJSONCalls ==
    {ParseJSONArgs(Written(tree, layout), Written(Unslipped(tree), layout), SlipOf(tree)) :
        tree \in Trees, layout \in Layouts}
      \cup {ParseJSONArgs(Fenced(Written(tree, layout), tag), Written(tree, layout), "fence") :
               tree \in {t \in Trees : SlipsIn(t) = 0}, layout \in Layouts,
               tag \in {<< >>, JsonWord, <<"J", "S", "O", "N">>}}

ParseJSON == Return("parseJSON", parseJSON(args.text))

ParseInit ==
    /\ engine = ""
    /\ op = ""
    /\ comments = << >>
    /\ backend = NotCalled
    /\ outcome = Pending
    /\ calls = 0
    /\ args \in ParseJSONCalls
    /\ ret = NoResult
    /\ config = NoConfig
    /\ env = NoEnv

ParseNext == ParseJSON

ParseSpec == ParseInit /\ [][ParseNext]_vars

\* ------------------------------------------------------------------ claims

Analyses == IF outcome.kind = "returned" THEN outcome.response.analyses ELSE << >>

IsGroqBatch == engine = "GroqEngine" /\ op = "analyzeBatch"

IsGroqAxis == engine = "GroqEngine" /\ op = "analyzeAxisBatch"

IsGeminiBatch == engine = "GeminiEngine" /\ op = "analyzeBatch"

HasReturned == outcome.kind = "returned"

\* One analysis per request comment, in the order of the request.
AlignedWithRequest ==
    /\ Len(Analyses) = Len(comments)
    /\ \A i \in 1..Len(comments) : Analyses[i].commentId = comments[i].id

\* The ids of a sequence of items.
IdsOf(items) == [k \in 1..Len(items) |-> items[k].commentId]

\* C1: whenever GroqEngine.analyzeBatch returns for a non-empty request with
\* distinct ids, analyses has the length of the request and analyses[i] is
\* the judgment of comments[i], whatever ids the reply holds.
C1_BatchAlignedWithRequest ==
    (IsGroqBatch /\ HasReturned /\ Len(comments) > 0) => AlignedWithRequest

\* The reply lists the two comments of the request in the opposite order and
\* the call has returned.
C1_Witness ==
    /\ IsGroqBatch /\ HasReturned
    /\ backend.settled = "resolved" /\ backend.text.decodable
    /\ backend.text.value.isArray
    /\ IdsOf(backend.text.value.items) = <<2, 1>>
    /\ Len(comments) = 2

\* C2: whenever GroqEngine.analyzeAxisBatch returns, analyses[i] is the
\* judgment of request.comments[i], also when a reply is listed before a
\* top-level comment.
C2_AxisAlignedWithRequest ==
    (IsGroqAxis /\ HasReturned) => AlignedWithRequest

\* C3: whenever GeminiEngine.analyzeBatch returns, it returns one analysis
\* per request comment in the order of the request.
C3_GeminiAlignedWithRequest ==
    (IsGeminiBatch /\ HasReturned) => AlignedWithRequest

\* What the claims call a rate/quota-limit error: status 429 or 413, or a
\* message with a quota word.
RateLimitFailure(error) == error.status \in {429, 413} \/ error.quotaWords

\* The neutral fallback of a comment: score 0, weightedScore 0, emotions
\* ["neutral"], isSarcasm false, a non-empty reason.
IsNeutralFallback(j, id) ==
    /\ j.commentId = id
    /\ j.score = 0
    /\ j.weightedScore = 0
    /\ j.emotions = <<"neutral">>
    /\ j.isSarcasm = "false"
    /\ j.reason # << >> /\ j.reason # UndefText

\* The call returned the partial result: isPartial, no tokens, one neutral
\* fallback per request comment in the order of the request.
ReturnedPartial ==
    /\ HasReturned
    /\ outcome.response.isPartial = "true"
    /\ outcome.response.tokensUsed = 0
    /\ Len(Analyses) = Len(comments)
    /\ \A i \in 1..Len(comments) : IsNeutralFallback(Analyses[i], comments[i].id)

\* C4 as stated: a backend call of analyzeBatch or analyzeAxisBatch that
\* fails with status 429 or 413 or with a quota message returns the partial
\* result.
C4_RateLimitReturnsPartial ==
    ((IsGroqBatch \/ IsGroqAxis) /\ backend.settled = "rejected"
        /\ RateLimitFailure(backend.error))
    => ReturnedPartial

\* The error is a json_validate_failed error (status 400) whose
\* failed_generation decodes.
RecoverableFailure(error) ==
    /\ error.status = 400
    /\ error.code = "json_validate_failed"
    /\ error.hasFailed
    /\ error.failed_generation.decodable

\* C4 amended: a backend call of analyzeBatch or analyzeAxisBatch that fails
\* with status 429 or 413, or with a quota message on an error that is not a
\* json_validate_failed error with a decodable failed_generation, returns
\* the partial result.
C4_UnrecoveredRateLimitReturnsPartial ==
    ((IsGroqBatch \/ IsGroqAxis) /\ backend.settled = "rejected"
        /\ RateLimitFailure(backend.error) /\ ~RecoverableFailure(backend.error))
    => ReturnedPartial

\* The backend call of analyzeAxisBatch failed with status 413 for a request
\* of two comments.
C4_Witness ==
    /\ IsGroqAxis /\ backend.settled = "rejected"
    /\ backend.error.status = 413
    /\ Len(comments) = 2
    /\ HasReturned

\* The items of the decoded reply: the array, the object itself, or the array
\* the object holds; of an object with more than one array, the one the call
\* reads.
ItemsIn(value) ==
    IF value.isArray THEN value.items
    ELSE IF value.has = {} THEN <<value.self>>
    ELSE IF IsGroqBatch /\ backend.settled = "resolved" THEN BatchParsedArray(value)
    ELSE RecoveryItems(value)

\* The ids of the request that no item of the decoded reply carries.
Omitted(value) ==
    {i \in 1..Len(comments) :
        \A k \in 1..Len(ItemsIn(value)) : ItemsIn(value)[k].commentId # comments[i].id}

\* C5: a batch call of GroqEngine or GeminiEngine whose backend request fails
\* with a rate/quota-limit error, or whose reply omits items, never throws.
C5_QuotaAndOmissionNeverThrow ==
    (/\ engine # "" /\ op \in {"analyzeBatch", "analyzeAxisBatch"}
     /\ \/ backend.settled = "rejected" /\ RateLimitFailure(backend.error)
        \/ /\ backend.settled = "resolved" /\ backend.text.decodable
           /\ backend.text.value.isArray
           /\ Omitted(backend.text.value) # {})
    => outcome.kind # "thrown"

\* C6: when the backend of analyzeBatch or analyzeAxisBatch returns text that
\* parseJSON cannot decode, the call throws the AnalysisError of the
\* operation with the parse error as details, and returns no result.
C6_DecodeFailureThrows ==
    ((IsGroqBatch \/ IsGroqAxis) /\ backend.settled = "resolved"
        /\ ~backend.text.decodable)
    => /\ outcome.kind = "thrown"
       /\ outcome.code = (IF IsGroqBatch THEN "GROQ_BATCH_ERROR"
                          ELSE "GROQ_AXIS_BATCH_ERROR")
       /\ outcome.details = SyntaxErrorOf(backend.text)

\* The decoded reply of the call: the text of a resolved call, the
\* failed_generation of a recovered one.
HasDecodedReply ==
    \/ backend.settled = "resolved" /\ backend.text.decodable
    \/ backend.settled = "rejected" /\ RecoverableFailure(backend.error)

DecodedReply ==
    IF backend.settled = "resolved" THEN backend.text.value
    ELSE backend.error.failed_generation.value

\* The judgment returned for a comment id.
JudgmentsOf(id) == {i \in 1..Len(Analyses) : Analyses[i].commentId = id}

\* The first item of the reply with the id.
FirstItemOf(value, id) ==
    LET items == ItemsIn(value)
        k == CHOOSE k \in 1..Len(items) :
                 /\ items[k].commentId = id
                 /\ \A m \in 1..(k - 1) : items[m].commentId # id
    IN items[k]

\* C7: in analyzeBatch and analyzeAxisBatch every comment whose id is in no
\* item of the decoded reply gets the neutral fallback (in the axis variant
\* with label Unknown and confidence 0), every other comment the judgment
\* built from its item, and the call returns a result that is not partial.
C7_OmittedGetNeutralFallback ==
    ((IsGroqBatch \/ IsGroqAxis) /\ HasDecodedReply)
    => /\ HasReturned
       /\ outcome.response.isPartial = Undef
       /\ \A i \in 1..Len(comments) :
             /\ Cardinality(JudgmentsOf(comments[i].id)) = 1
             /\ \A n \in JudgmentsOf(comments[i].id) :
                   IF i \in Omitted(DecodedReply)
                   THEN /\ IsNeutralFallback(Analyses[n], comments[i].id)
                        /\ IsGroqAxis => /\ Analyses[n].label = "Unknown"
                                         /\ Analyses[n].confidence = 0
                   ELSE LET item == FirstItemOf(DecodedReply, comments[i].id)
                        IN /\ Analyses[n].emotions =
                                  (IF item.emotions = UndefList THEN <<"neutral">>
                                   ELSE item.emotions)
                           /\ Analyses[n].isSarcasm =
                                  (IF item.isSarcasm = "true" THEN "true" ELSE "false")
                           /\ IsGroqBatch => Analyses[n].score = clampScore(item.score)

\* The reply of an axis call holds an item for one comment of the request
\* and none for the other.
C7_Witness ==
    /\ IsGroqAxis /\ HasDecodedReply /\ HasReturned
    /\ Len(comments) = 2
    /\ Cardinality(Omitted(DecodedReply)) = 1

\* C8: a batch operation issues no backend call for the empty request and
\* returns analyses [], processingTimeMs 0, tokensUsed 0; for any other
\* request it issues exactly one call, however the call ends.
C8_OneBackendCall ==
    (engine # "" /\ op \in {"analyzeBatch", "analyzeAxisBatch"})
    => IF Len(comments) = 0
       THEN /\ calls = 0
            /\ HasReturned
            /\ outcome.response.analyses = << >>
            /\ outcome.response.processingTimeMs = 0
            /\ outcome.response.tokensUsed = 0
       ELSE calls = 1

\* A call for two comments has ended through the json_validate_failed
\* recovery.
C8_Witness ==
    /\ op \in {"analyzeBatch", "analyzeAxisBatch"}
    /\ Len(comments) = 2
    /\ backend.settled = "rejected" /\ RecoverableFailure(backend.error)
    /\ HasReturned
    /\ calls = 1

InUnitRange(x) == IsNumber(x) /\ 0 - One <= x /\ x <= One

\* C9: every judgment an engine operation returns has score and
\* weightedScore in [-1, 1].
C9_ScoresInUnitRange ==
    (engine # "" /\ HasReturned)
    => \A n \in 1..Len(Analyses) :
          InUnitRange(Analyses[n].score) /\ InUnitRange(Analyses[n].weightedScore)

\* clamp(score * (1 + log10(likeCount + 1)) / 7, -1, 1) of a stored score.
WeightedOf(score, likeCount) ==
    LET w == 1 + Log10(likeCount + 1)
        x == IF IsNumber(score) THEN (score * w) \div 7 ELSE NaN
    IN IF x = NaN THEN NaN
       ELSE IF x > One THEN One
       ELSE IF x < 0 - One THEN 0 - One
       ELSE x

\* C10: in every judgment returned, weightedScore is the weighting of the
\* score stored in the same judgment by the likeCount of its comment.
C10_WeightedFromStoredScore ==
    (engine # "" /\ HasReturned)
    => \A n \in 1..Len(Analyses) : \A i \in 1..Len(comments) :
          comments[i].id = Analyses[n].commentId
          => Analyses[n].weightedScore
                 = WeightedOf(Analyses[n].score, comments[i].likeCount)

StanceTable ==
    [r \in RelationValues |->
        [p \in StanceLabels |->
            CASE r \in {"unrelated", "clarify", "question"} -> "Neutral"
              [] r = "disagree" ->
                    [Support |-> "Oppose", Oppose |-> "Support",
                     Neutral |-> "Neutral", Unknown |-> "Unknown"][p]
              [] r = "agree" -> p
              [] OTHER -> "Unknown"]]

Called(fn) == args.fn = fn /\ ret.done

\* C11: synthesizeStance returns the label of the table for each of the four
\* parent labels and each relation: Neutral for unrelated, clarify and
\* question; the flipped label for disagree (Neutral and Unknown kept);
\* the parent's label for agree; Unknown for any other or missing relation.
C11_SynthesizeStanceIsTheTable ==
    Called("synthesizeStance") =>
        ret.value = StanceTable[args.replyRelation][args.parentLabel]

\* synthesizeStance("Oppose", "disagree") returned "Support".
C11_Witness ==
    /\ Called("synthesizeStance")
    /\ args.parentLabel = "Oppose"
    /\ args.replyRelation = "disagree"
    /\ ret.value = "Support"

\* C12: labelToScore gives 0.85 for Support, -0.85 for Oppose, 0 for Neutral
\* and 0 for Unknown, and converting that score to a label and back gives
\* the same score.
C12_LabelToScoreTableAndRoundTrip ==
    Called("labelToScore") /\ args.label \in StanceLabels =>
        /\ ret.value = [Support |-> (85 * One) \div 100, Oppose |-> 0 - ((85 * One) \div 100),
                        Neutral |-> 0, Unknown |-> 0][args.label]
        /\ labelToScore(scoreToLabel(ret.value)) = ret.value

\* labelToScore("Oppose") returned -0.85, which scoreToLabel reads as Oppose.
C12_Witness ==
    /\ Called("labelToScore")
    /\ args.label = "Oppose"
    /\ ret.value < 0
    /\ scoreToLabel(ret.value) = "Oppose"

\* The parentIds the comments argument gives for a judgment's comment.
ParentIdsOf(a) ==
    {args.comments[i].parentId : i \in {j \in 1..Len(args.comments) :
        args.comments[j].id = a.commentId /\ args.comments[j].parentId # 0}}

\* The labels the input judgments of those parents carry.
ParentLabelsOf(a) ==
    {args.analyses[i].label : i \in {j \in 1..Len(args.analyses) :
        args.analyses[j].commentId \in ParentIdsOf(a) /\ args.analyses[j].label # Undef}}

\* The judgment's comment has a parent with a labelled judgment in the batch
\* and the judgment carries a replyRelation.
Reconcilable(a) == ParentLabelsOf(a) # {} /\ a.replyRelation # Undef

\* C13: applyStanceSynthesis returns a judgment with every field unchanged
\* when its comment is unknown or has no parentId, when the parent has no
\* judgment in the batch or an unlabelled one, or when the judgment has no
\* replyRelation.
C13_UnreconcilableIsUnchanged ==
    Called("applyStanceSynthesis") =>
        /\ Len(ret.value) = Len(args.analyses)
        /\ \A k \in 1..Len(args.analyses) :
               ~Reconcilable(args.analyses[k]) => ret.value[k] = args.analyses[k]

\* A reply with a replyRelation whose parent's judgment has no label came
\* back unchanged, next to a reply that was rewritten.
C13_Witness ==
    /\ Called("applyStanceSynthesis")
    /\ \E k, n \in 1..Len(args.analyses) :
          /\ args.analyses[k].replyRelation # Undef
          /\ ParentIdsOf(args.analyses[k]) # {}
          /\ \E j \in 1..Len(args.analyses) :
                /\ args.analyses[j].commentId \in ParentIdsOf(args.analyses[k])
                /\ args.analyses[j].label = Undef
          /\ ret.value[k] = args.analyses[k]
          /\ ret.value[n] # args.analyses[n]

\* C14: a judgment whose comment has a parent in the batch with a labelled
\* judgment and which carries a replyRelation gets the label synthesized
\* from the parent's label and the relation, and that label's score,
\* whatever label and score the backend proposed for it.
C14_ReconciledLabelAndScore ==
    Called("applyStanceSynthesis") =>
        \A k \in 1..Len(args.analyses) :
            Reconcilable(args.analyses[k]) =>
                \A parentLabel \in ParentLabelsOf(args.analyses[k]) :
                    /\ ret.value[k].label =
                           StanceTable[args.analyses[k].replyRelation][parentLabel]
                    /\ ret.value[k].score = labelToScore(ret.value[k].label)

\* A reply proposed as Support that disagrees with a Support parent came
\* back as Oppose with the score of Oppose.
C14_Witness ==
    /\ Called("applyStanceSynthesis")
    /\ \E k \in 1..Len(args.analyses) :
          /\ Reconcilable(args.analyses[k])
          /\ ParentLabelsOf(args.analyses[k]) = {"Support"}
          /\ args.analyses[k].label = "Support"
          /\ args.analyses[k].replyRelation = "disagree"
          /\ ret.value[k].label = "Oppose"
          /\ ret.value[k].score < 0
          /\ ret.value[k].score # args.analyses[k].score

\* In the analyses argument every parent's judgment stands before the
\* judgments of its replies.
ParentsPrecede ==
    \A k, j \in 1..Len(args.analyses) :
        args.analyses[j].commentId \in ParentIdsOf(args.analyses[k]) => j < k

\* C15: the parent label used to reconcile a reply is the label the parent's
\* judgment has in the output of the same call, also when the parent is a
\* reply that synthesis rewrote and that precedes the child in the input.
C15_ParentLabelIsFinalized ==
    Called("applyStanceSynthesis") /\ ParentsPrecede =>
        \A k, j \in 1..Len(args.analyses) :
            /\ Reconcilable(args.analyses[k])
            /\ args.analyses[j].commentId \in ParentIdsOf(args.analyses[k])
            => ret.value[k].label =
                   StanceTable[args.analyses[k].replyRelation][ret.value[j].label]

\* C16: in every judgment analyzeAxisBatch returns, label and score agree
\* under the conversion: the score is the label's score, or the label is
\* the score's label.
C16_AxisLabelAgreesWithScore ==
    IsGroqAxis /\ HasReturned =>
        \A n \in 1..Len(Analyses) :
            \/ Analyses[n].score = labelToScore(Analyses[n].label)
            \/ scoreToLabel(Analyses[n].score) = Analyses[n].label

\* The id of the k-th comment of the returned order (the prompt writes the
\* id as commentId).
OutId(k) ==
    IF args.fn = "createAxisBatchPrompt" THEN ret.value[k].commentId ELSE ret.value[k].id

\* The position in the input of the k-th comment of the returned order.
InPos(k) == CHOOSE i \in 1..Len(args.comments) : args.comments[i].id = OutId(k)

\* The returned order is the input with the top-level comments moved before
\* the replies and nothing else changed.
StablyPartitioned ==
    /\ Len(ret.value) = Len(args.comments)
    /\ \A k \in 1..Len(ret.value) :
          /\ \E i \in 1..Len(args.comments) : args.comments[i].id = OutId(k)
          /\ ret.value[k].parentId = args.comments[InPos(k)].parentId
    /\ \A k, n \in 1..Len(ret.value) :
          k < n =>
              /\ OutId(k) # OutId(n)
              /\ ~(ret.value[k].parentId # 0 /\ ret.value[n].parentId = 0)
              /\ (ret.value[k].parentId = 0 <=> ret.value[n].parentId = 0)
                     => InPos(k) < InPos(n)

ScoredPositions ==
    {k \in 1..Len(args.predictions) :
        /\ args.predictions[k].label # Undef
        /\ \E g \in 1..Len(args.groundTruth) :
              args.groundTruth[g].commentId = args.predictions[k].commentId}

\* The expected label of the k-th prediction, a scored one.
ExpectedAt(k) ==
    LET g == CHOOSE i \in 1..Len(args.groundTruth) :
                 args.groundTruth[i].commentId = args.predictions[k].commentId
    IN args.groundTruth[g].expectedLabel

CorrectPositions == {k \in ScoredPositions : args.predictions[k].label = ExpectedAt(k)}

\* C18: evaluateStanceAccuracy scores exactly the labelled predictions with
\* a ground-truth match: totalSamples counts them, correctPredictions counts
\* those with the expected label, accuracy is their quotient (0 when none is
\* scored), and the result is the one obtained without the other
\* predictions.
C18_ScoresLabelledMatchedPredictions ==
    Called("evaluateStanceAccuracy") =>
        /\ ret.value.totalSamples = Cardinality(ScoredPositions)
        /\ ret.value.correctPredictions = Cardinality(CorrectPositions)
        /\ ret.value.accuracy.num * Cardinality(ScoredPositions)
               = Cardinality(CorrectPositions) * ret.value.accuracy.den
        /\ ScoredPositions = {} => ret.value.accuracy.num = 0
        /\ ret.value =
               evaluateStanceAccuracy(
                   SelectSeq(args.predictions,
                             LAMBDA q : \E k \in ScoredPositions : args.predictions[k] = q),
                   args.groundTruth)

\* Three predictions, one without a label and one for a comment outside
\* the ground truth: one is scored, and it is correct.
C18_Witness ==
    /\ Called("evaluateStanceAccuracy")
    /\ Len(args.predictions) = 3
    /\ Cardinality(ScoredPositions) = 1
    /\ \E k \in 1..3 : args.predictions[k].label = Undef
    /\ \E k \in 1..3 :
          /\ args.predictions[k].label # Undef
          /\ k \notin ScoredPositions
    /\ ret.value.totalSamples = 1
    /\ ret.value.correctPredictions = 1
    /\ ret.value.accuracy = Ratio(1, 1)

\* The scored predictions with expected label e and predicted label q.
PairPositions(e, q) ==
    {k \in ScoredPositions : ExpectedAt(k) = e /\ args.predictions[k].label = q}

\* The sum of the cells of the confusion matrix in row e over the columns.
RowSum(matrix, e) ==
    matrix[e]["Support"] + matrix[e]["Oppose"] + matrix[e]["Neutral"] + matrix[e]["Unknown"]

ColumnSum(matrix, q) ==
    matrix["Support"][q] + matrix["Oppose"][q] + matrix["Neutral"][q] + matrix["Unknown"][q]

\* C19: confusionMatrix[e][p] is the number of scored predictions with
\* expected label e and predicted label p, so the cells sum to
\* totalSamples, the diagonal to correctPredictions, each row to the scored
\* items expected as that label and each column to those predicted as it.
C19_ConfusionMatrixCounts ==
    Called("evaluateStanceAccuracy") =>
        LET matrix == ret.value.confusionMatrix
        IN /\ \A e, q \in StanceLabels : matrix[e][q] = Cardinality(PairPositions(e, q))
           /\ RowSum(matrix, "Support") + RowSum(matrix, "Oppose")
                  + RowSum(matrix, "Neutral") + RowSum(matrix, "Unknown")
                  = ret.value.totalSamples
           /\ matrix["Support"]["Support"] + matrix["Oppose"]["Oppose"]
                  + matrix["Neutral"]["Neutral"] + matrix["Unknown"]["Unknown"]
                  = ret.value.correctPredictions
           /\ \A e \in StanceLabels :
                  RowSum(matrix, e) = Cardinality({k \in ScoredPositions : ExpectedAt(k) = e})
           /\ \A q \in StanceLabels :
                  ColumnSum(matrix, q)
                      = Cardinality({k \in ScoredPositions : args.predictions[k].label = q})

\* Three scored predictions, two Support expected and predicted and one
\* Oppose expected but predicted Neutral.
C19_Witness ==
    /\ Called("evaluateStanceAccuracy")
    /\ Cardinality(ScoredPositions) = 3
    /\ ret.value.confusionMatrix["Support"]["Support"] = 2
    /\ ret.value.confusionMatrix["Oppose"]["Neutral"] = 1
    /\ ret.value.totalSamples = 3
    /\ ret.value.correctPredictions = 2

\* The severity the claim gives to a pair of different labels.
SeverityTable(e, q) ==
    IF {e, q} = {"Support", "Oppose"} THEN "high"
    ELSE IF "Neutral" \in {e, q} /\ ({e, q} \cap {"Support", "Oppose"}) # {} THEN "medium"
    ELSE "low"

\* The scored predictions whose label is not the expected one, in order.
MismatchSeq ==
    SelectSeq([k \in 1..Len(args.predictions) |-> k],
              LAMBDA k : k \in ScoredPositions \ CorrectPositions)

\* C20: criticalErrors holds the scored predictions whose label differs from
\* the expected one, each with its commentId, expected and predicted label
\* and the severity high for Support against Oppose, medium for Support or
\* Oppose against Neutral, low when Unknown is involved; it is empty when
\* every scored prediction is correct.
C20_CriticalErrorsAreTheMismatches ==
    Called("evaluateStanceAccuracy") =>
        /\ Len(ret.value.criticalErrors) = Len(MismatchSeq)
        /\ \A n \in 1..Len(MismatchSeq) :
              LET k == MismatchSeq[n]
                  error == ret.value.criticalErrors[n]
              IN /\ error.commentId = args.predictions[k].commentId
                 /\ error.expected = ExpectedAt(k)
                 /\ error.predicted = args.predictions[k].label
                 /\ error.severity = SeverityTable(error.expected, error.predicted)
                 /\ error.severity = "low" <=> "Unknown" \in {error.expected, error.predicted}

\* Two correct predictions and one Support predicted for an expected
\* Oppose: exactly one critical error, of severity high.
C20_Witness ==
    /\ Called("evaluateStanceAccuracy")
    /\ Cardinality(ScoredPositions) = 3
    /\ Cardinality(CorrectPositions) = 2
    /\ Len(ret.value.criticalErrors) = 1
    /\ ret.value.criticalErrors[1].expected = "Oppose"
    /\ ret.value.criticalErrors[1].predicted = "Support"
    /\ ret.value.criticalErrors[1].severity = "high"

\* The entries of perLabelMetrics for label l.
MetricsOf(l) ==
    {n \in 1..Len(ret.value.perLabelMetrics) : ret.value.perLabelMetrics[n].label = l}

\* The fraction x is a / b, or 0 when b is 0.
IsQuotient(x, a, b) ==
    /\ x.den > 0
    /\ IF b = 0 THEN x.num = 0 ELSE x.num * b = a * x.den

\* C21: perLabelMetrics has one entry per label, with precision
\* TP/(TP+FP), recall TP/(TP+FN) and F1 2*precision*recall over
\* (precision+recall) computed from the confusion matrix, each 0 when its
\* denominator is 0.
C21_PerLabelMetrics ==
    Called("evaluateStanceAccuracy") =>
        /\ Len(ret.value.perLabelMetrics) = 4
        /\ \A l \in StanceLabels : Cardinality(MetricsOf(l)) = 1
        /\ \A n \in 1..Len(ret.value.perLabelMetrics) :
              LET m == ret.value.perLabelMetrics[n]
                  matrix == ret.value.confusionMatrix
                  TP == matrix[m.label][m.label]
                  FP == ColumnSum(matrix, m.label) - TP
                  FN == RowSum(matrix, m.label) - TP
                  P == m.precision
                  R == m.recall
              IN /\ IsQuotient(P, TP, TP + FP)
                 /\ IsQuotient(R, TP, TP + FN)
                 \* F1 = (2 * P * R) / (P + R), over the common denominator
                 /\ IsQuotient(m.f1Score, 2 * P.num * R.num,
                               P.num * R.den + R.num * P.den)

\* Support predicted twice, once rightly and once for an Oppose comment:
\* precision 1/2, recall 1, F1 2/3.
C21_Witness ==
    /\ Called("evaluateStanceAccuracy")
    /\ \E n \in MetricsOf("Support") :
          /\ ret.value.perLabelMetrics[n].precision = Ratio(1, 2)
          /\ ret.value.perLabelMetrics[n].recall = Ratio(1, 1)
          /\ ret.value.perLabelMetrics[n].f1Score = Ratio(2, 3)

\* The defaults getConfig reports for a field no constructor argument and no
\* update has set.
EngineDefaultOf(e) ==
    IF e = "GroqEngine" THEN GroqDefaultConfig ELSE GeminiDefaultConfig

\* C22: a remote engine's configuration holds, for each of batchSize,
\* maxComments and timeoutMs, the value of the most recent constructor
\* argument or update that set the field, and the engine default if none did:
\* construction overlays the overrides on the defaults, an update overlays its
\* fields on the configuration and leaves every other field as it was, and
\* getConfig returns the configuration as it stands.
C22_ConfigKeepsLatestValues ==
    [][/\ (engine = "" /\ engine' \in RemoteEngines) =>
            \A f \in ConfigFields :
                config'[f] = IF f \in DOMAIN args'.config
                             THEN args'.config[f]
                             ELSE EngineDefaultOf(engine')[f]
       /\ (engine \in RemoteEngines /\ args'.fn = "updateConfig") =>
            \A f \in ConfigFields :
                config'[f] = IF f \in DOMAIN args'.config
                             THEN args'.config[f]
                             ELSE config[f]
       /\ (engine \in RemoteEngines /\ args'.fn = "getConfig") =>
            /\ config' = config
            /\ ret'.done
            /\ \A f \in ConfigFields : ret'.value[f] = config[f]]_vars

\* getConfig reports a constructor override, an updated field and a default.
C22_Witness ==
    /\ engine = "GroqEngine"
    /\ args.fn = "getConfig"
    /\ ret.done
    /\ ret.value.batchSize = 10
    /\ ret.value.maxComments = 30
    /\ ret.value.timeoutMs = 30000

\* The credential a creation call was given: the argument, else the
\* environment variable of the engine.
CredentialOf(variable) == StrOr(args.apiKey, env[variable])

\* A remote engine was asked for and no credential was set.
CreatedWithoutCredential ==
    \/ /\ args.fn = "createGroqEngine"
       /\ CredentialOf("GROQ_API_KEY") = Undef
    \/ /\ args.fn = "createGeminiEngine"
       /\ CredentialOf("GEMINI_API_KEY") = Undef
    \/ /\ args.fn = "createAnalysisEngine"
       /\ args.type = "gemini"
       /\ CredentialOf("GEMINI_API_KEY") = Undef

\* C23: creating a remote engine without a credential fails at construction,
\* before any analysis call, with a typed error that carries a code.
C23_MissingCredentialIsTypedError ==
    CreatedWithoutCredential =>
        /\ engine = ""
        /\ calls = 0
        /\ outcome.kind = "thrown"
        /\ outcome.code # Undef

\* C24 (as claimed): a text that is already a valid JSON array or object
\* decodes to its plain parse: the repair stages change no string value.
C24_ValidTextDecodesToItsParse ==
    (Called("parseJSON") /\ args.how = "none") =>
        /\ JSONParse(args.text).ok
        /\ ret.value.ok
        /\ ret.value.value = JSONParse(args.text).val

\* C25 (as claimed): a text obtained from a valid one by a code fence, a plus
\* sign before a numeric field value, quotes around a boolean field value or a
\* comma before a closing bracket decodes, and to what the valid text decodes
\* to.
C25_RepairedTextDecodesLikeValid ==
    (Called("parseJSON") /\ args.how # "none") =>
        /\ JSONParse(args.valid).ok
        /\ ret.value.ok
        /\ ret.value = parseJSON(args.valid)

\* The part occurs in the text, as it stands.
Contains(text, part) ==
    \E i \in 0..(Len(text) - Len(part)) : SubSeq(text, i + 1, i + Len(part)) = part

\* C26 (as claimed): when applyStanceSynthesis rewrites a reply's judgment,
\* the axisEvidence and the reason it returns still contain the axisEvidence
\* and the reason the judgment came with.
C26_RewriteKeepsEvidenceAndReason ==
    Called("applyStanceSynthesis") =>
        \A k \in 1..Len(args.analyses) :
            Reconcilable(args.analyses[k]) =>
                /\ Contains(ret.value[k].axisEvidence, args.analyses[k].axisEvidence)
                /\ Contains(ret.value[k].reason, args.analyses[k].reason)

\* The value a Groq batch call decoded in this state: the reply's, or the
\* failed_generation's on the recovery path.
DecodedHere ==
    IF ~(IsGroqBatch \/ IsGroqAxis) \/ outcome.kind = "pending" THEN {}
    ELSE IF backend.settled = "resolved"
    THEN IF backend.text.decodable THEN {backend.text.value} ELSE {}
    ELSE IF backend.settled = "rejected"
            /\ TriesRecovery(backend.error) /\ backend.error.failed_generation.decodable
    THEN {backend.error.failed_generation.value}
    ELSE {}

\* C27 (as claimed): every decode site of GroqEngine takes the same array of
\* a decoded value (one preference order of comments, analyses and results,
\* whichever call and path decodes it), and an object with none of the three
\* is taken as the only item.
C27_OnePreferenceOrder ==
    \A parsed \in DecodedHere :
        /\ BatchParsedArray(parsed) = AxisParsedArray(parsed)
        /\ AxisParsedArray(parsed) = RecoveryItems(parsed)
        /\ (~parsed.isArray /\ parsed.has = {}) => RecoveryItems(parsed) = <<parsed.self>>

\* analyzeAxisBatch returned from the recovery of a json_validate_failed
\* error.
AxisRecovered ==
    /\ IsGroqAxis
    /\ outcome.kind = "returned"
    /\ backend.settled = "rejected"
    /\ TriesRecovery(backend.error)
    /\ backend.error.failed_generation.decodable

\* What analyzeAxisBatch returns for the same items in a normal completion.
AsNormalCompletion ==
    AxisAnalyses(SortedComments(comments),
                 AxisParsedArray(backend.error.failed_generation.value))

\* C28 (as claimed): the recovery path of analyzeAxisBatch gives every
\* comment the label and the score the normal path gives it for the same
\* decoded items: a reply whose item carries a replyRelation under a labelled
\* parent is synthesized on the recovery path too.
C28_RecoveryLabelsAsNormalPath ==
    AxisRecovered =>
        /\ Len(Analyses) = Len(AsNormalCompletion)
        /\ \A k \in 1..Len(Analyses) :
               /\ Analyses[k].label = AsNormalCompletion[k].label
               /\ Analyses[k].score = AsNormalCompletion[k].score

\* C29 (as claimed): the synthesizeStance of the axis-logic tests returns,
\* for each of the 4 parent labels and 5 relations, the label the production
\* synthesizeStance returns, disagree with a Neutral or an Unknown parent
\* included.
C29_TestHelperIsProduction ==
    Called("test.synthesizeStance") =>
        ret.value = synthesizeStance(args.parentLabel, args.replyRelation)

\* C30: every scored mismatch of evaluateStanceAccuracy is a critical error:
\* criticalErrors.length = totalSamples - correctPredictions, no pair of
\* distinct labels has the severity null.
C30_EveryMismatchIsRecorded ==
    /\ \A expected, predicted \in StanceLabels :
           expected # predicted => getCriticalErrorSeverity(expected, predicted) # "null"
    /\ Called("evaluateStanceAccuracy") =>
           Len(ret.value.criticalErrors)
               = ret.value.totalSamples - ret.value.correctPredictions

\* Of three scored predictions one is correct, and the two mismatches, one
\* of them with an Unknown expected label, are both recorded.
C30_Witness ==
    /\ Called("evaluateStanceAccuracy")
    /\ ret.value.totalSamples = 3
    /\ ret.value.correctPredictions = 1
    /\ Len(ret.value.criticalErrors) = 2
    /\ \E n \in 1..2 :
          /\ ret.value.criticalErrors[n].expected = "Unknown"
          /\ ret.value.criticalErrors[n].severity = "low"

====
